---- MODULE Spec2Model ----
(***************************************************************************)
(* A model of DataMat's resilient data-acquisition engine:                 *)
(*   core/adapters/api_adapter.py  (_RateLimiter, APISourceAdapter)        *)
(*   core/auth/oauth2_client.py    (OAuth2Client)                          *)
(*                                                                         *)
(* The module holds several specifications over one set of variables.     *)
(* Each specification drives one part of the engine and leaves the        *)
(* variables of the other parts at their initial values:                   *)
(*   SpecRate   concurrent callers of _RateLimiter.wait()                  *)
(*   SpecTok    concurrent callers of OAuth2Client (token cache file)      *)
(*   SpecOne    OAuth2Client called by one caller at a time                *)
(*   SpecReq    one APISourceAdapter._make_request call                    *)
(*   SpecCons   APISourceAdapter.extract_raw: passes and consolidation     *)
(*   SpecPage   APISourceAdapter._fetch_all_pages: one pagination run      *)
(*   SpecExp    APISourceAdapter._execute_full_pass: the parameter matrix  *)
(*   SpecEnr    APISourceAdapter._enrich_data_raw: detail fetches          *)
(*   SpecRows   APISourceAdapter._get_data_from_payload on one payload     *)
(*   SpecChan   the main and the enrichment rate limiter of one adapter    *)
(*   SpecPool   the worker pool, semaphore and lock of a concurrent        *)
(*              enrichment; SpecPoolFair is SpecPool with its threads      *)
(*              scheduled                                                  *)
(***************************************************************************)
EXTENDS Integers, Sequences, FiniteSets, TLC

\* ------------------------------------------------------------------
\* Bounds of the model
\* ------------------------------------------------------------------
NumThreads == 2      \* concurrent callers of wait()
MaxCalls == 2        \* wait() calls made by each caller
MaxTicks == 7        \* seconds the monotonic clock may advance by itself
MaxTokCalls == 2     \* OAuth2Client calls started, over all callers
MaxWallTicks == 1    \* times the wall clock jumps ahead by one token lifetime
MaxRetriesCap == 3   \* largest API_MAX_RETRIES tried
MaxRows == 2         \* rows one full pass returns at most
MaxPassesCap == 3    \* largest max_passes tried
MaxRuns == 2         \* extract_raw() runs against one fixed upstream
MaxPageSize == 2     \* largest page size, and most rows in one response
MaxPagesCap == 4     \* largest API_MAX_PAGES tried
MaxTotal == 5        \* largest dataset a paged upstream holds
MaxValues == 2       \* longest value list of a param_matrix key
MaxDetailIds == 3    \* most identities to enrich
MaxWorkers == 2      \* largest API_DETAIL_WORKERS tried
MaxChanRequests == 3 \* requests sent through the two rate limiters
MaxChanTicks == 2    \* times the clock moves between those requests
MaxDetailTries == 2  \* largest number of attempts of one detail request
MaxPermits == 2      \* largest API_CONCURRENT_REQUESTS tried

Threads == 1..NumThreads

VARIABLES
    \* ---- _RateLimiter (one channel) and its callers
    period_seconds,     \* _RateLimiter.period_seconds, in milliseconds
    last_request_time,  \* _RateLimiter.last_request_time
    lock,               \* _RateLimiter.lock: 0 when free, else the holder
    mono,               \* time.monotonic(), in milliseconds
    rpc,                \* rpc[t]: where caller t is inside wait()
    wake,               \* wake[t]: the instant before which sleep() does not return
    calls,              \* calls[t]: wait() calls caller t has completed
    permits             \* history: the stamps written to last_request_time, in order

rateVars == <<period_seconds, last_request_time, lock, mono, rpc, wake, calls, permits>>

VARIABLES
    \* ---- OAuth2Client: the token cache file and the token endpoint
    cache,              \* the file at cache_path
    wall,               \* time.time(), in seconds
    wallTicks,          \* times the wall clock has jumped
    issued,             \* tokens the token endpoint has issued so far
    \* ---- callers of OAuth2Client
    tpc,                \* tpc[t]: where caller t is inside its call
    top,                \* top[t]: the call caller t is in or made last
    tdata,              \* tdata[t]: token_data / refresh_token held by caller t
    tret,               \* tret[t]: what the last call of t returned or raised
    fopen,              \* callers holding cache_path open for writing
    clobbered,          \* callers whose open file was written by another since
    \* ---- history
    tokCalls,           \* calls started so far
    refreshPosts,       \* POSTs with grant_type=refresh_token sent so far
    tokHist             \* facts about the run so far (see TokHist0)

tokVars == <<cache, wall, wallTicks, issued, tpc, top, tdata, tret, fopen, clobbered,
             tokCalls, refreshPosts, tokHist>>

VARIABLES
    \* ---- OAuth2Client used by one caller at a time: history
    seqlog              \* the calls made so far, each with what it found and did

oneVars == <<seqlog>>

VARIABLES
    \* ---- APISourceAdapter._make_request (one call)
    max_retries,        \* self._max_retries
    has_oauth,          \* self._oauth_client is set (auth kind oauth2_generic)
    endpoint,           \* how the token endpoint answers during this call
    qpc,                \* "loop": at the top of the retry loop; "forced": a 401 was
                        \* received under OAuth2; "done": the call has ended
    att,                \* i, the index of the current attempt
    last_exc,           \* last_exc: the status of the last failed GET (0: network
                        \* failure), NoException when there is none
    outcome,            \* how the call ended
    qlog                \* history: what the call did, in order

reqVars == <<max_retries, has_oauth, endpoint, qpc, att, last_exc, outcome, qlog>>

VARIABLES
    \* ---- APISourceAdapter.extract_raw and the upstream it scans
    max_passes,         \* self.max_passes
    enrich_by_id,       \* self.enrich_by_id
    up_rows,            \* when up_frozen: the rows the upstream returns to
                        \* every full pass from now on
    up_frozen,          \* the upstream's per-pass result has become constant
    up_fixed,           \* it was constant from the start (a fixed dataset)
    xpc,                \* "pass": about to run pass pass_i; "finish": lines
                        \* 209-213 / 226-231; "done": extract_raw has ended
    pass_i,             \* i, the number of the pass about to run
    consolidated_data,  \* the dict, as its values in insertion order
    xresult,            \* what extract_raw returned
    xoutcome,           \* "returned" or the error raised
    xh,                 \* history of this run (see XHist0)
    runs                \* history: the consolidation outputs of the finished runs

consVars == <<max_passes, enrich_by_id, up_rows, up_frozen, up_fixed, xpc, pass_i,
              consolidated_data, xresult, xoutcome, xh, runs>>

VARIABLES
    \* ---- APISourceAdapter._fetch_all_pages and the upstream it pages through
    paging_mode,        \* self.paging.get("mode"): "page" or "none"
    paging_size,        \* self.paging.get("size", 100)
    start_page,         \* self.paging.get("start_page", 1)
    max_pages,          \* API_MAX_PAGES
    row_limit,          \* self.row_limit; 0: not set
    has_delay,          \* self.delay_between_pages_ms is set and > 0
    up_paged,           \* the upstream holds up_total records and serves them
    up_total,           \* in slices of the requested size; else it answers freely
    fpc,                \* "loop": top of the for loop; "await": request sent;
                        \* "done": _fetch_all_pages has ended
    page_num,           \* the loop counter
    page_param,         \* params[page_param] of the request being prepared
    page_size,          \* line 241
    all_rows,           \* the rows accumulated
    consecutive_empty_pages,
    foutcome,           \* "returned" or the error raised
    flog,               \* history: requests, responses and delays, in order
    bad_shapes          \* history: page payloads of an unrecognized shape

pageVars == <<paging_mode, paging_size, start_page, max_pages, row_limit, has_delay,
              up_paged, up_total, fpc, page_num, page_param, page_size, all_rows,
              consecutive_empty_pages, foutcome, flog, bad_shapes>>

VARIABLES
    \* ---- APISourceAdapter._execute_full_pass
    param_matrix,       \* self.param_matrix: <<[key, vals]>> in declared key order
    base_params,        \* self.base_params: a function from keys to values
    epc,                \* "start", "loop" (the for loop of line 158), "done"
    param_combinations, \* the list built by lines 149-155
    combo_i,            \* the index of the combination about to run
    all_rows_for_pass,  \* the rows accumulated
    eoutcome,           \* "returned" or the error raised
    elog                \* history: the parameters of each _fetch_all_pages call

expVars == <<param_matrix, base_params, epc, param_combinations, combo_i,
             all_rows_for_pass, eoutcome, elog>>

VARIABLES
    \* ---- APISourceAdapter._enrich_data_raw and _enrich_one_detail
    enrichment_strategy,  \* "concurrent" or "sequential"
    detail_workers,       \* self._detail_workers, the size of the pool
    concurrent_requests,  \* self._concurrent_requests, the semaphore's permits
    raw_data,             \* the rows to enrich
    npc,                  \* "start", "running", "done"
    ids_to_fetch,         \* line 311
    tstate,               \* per task: "queued", "acquire" (in _enrich_one_detail,
                          \* before the semaphore), "fetch" (holding a permit,
                          \* request in flight), "done"
    tresult,              \* per task: what _enrich_one_detail returned
    toutcome,             \* per task: how the detail request ended
    fetches,              \* per task: _make_request calls made for it
    sem_held,             \* permits of self._enrich_semaphore taken
    nresult,              \* what _enrich_data_raw returned
    noutcome              \* "returned" or the error raised

enrVars == <<enrichment_strategy, detail_workers, concurrent_requests, raw_data, npc,
             ids_to_fetch, tstate, tresult, toutcome, fetches, sem_held, nresult,
             noutcome>>

VARIABLES
    \* ---- APISourceAdapter._get_data_from_payload on one payload
    payload,            \* the decoded JSON body of a response
    data_path,          \* self.data_path, split at the dots; <<>>: not set
    gpc,                \* "call": not called yet; "done": it has returned
    walked,             \* history: data after the walk along the path
    extracted           \* what it returned (see Rows)

rowsVars == <<payload, data_path, gpc, walked, extracted>>

VARIABLES
    \* ---- APISourceAdapter: the two rate limiters of one adapter
    requests_per_minute,            \* 0 also stands for None
    enrichment_requests_per_minute, \* 0 also stands for None
    main_rate_limiter,              \* self._main_rate_limiter: its period and stamp
    enrich_rate_limiter,            \* self._enrich_rate_limiter
    cmono,                          \* time.monotonic(), in milliseconds
    cticks,                         \* times the clock has moved between requests
    chan_log                        \* history: the requests sent, with both limiters
                                    \* before and after the wait() of each

chanVars == <<requests_per_minute, enrichment_requests_per_minute, main_rate_limiter,
              enrich_rate_limiter, cmono, cticks, chan_log>>

VARIABLES
    \* ---- the worker pool of a concurrent enrichment: threads, semaphore, lock
    workers_n,       \* self._detail_workers, the size of the ThreadPoolExecutor
    permits_n,       \* self._concurrent_requests, the permits of _enrich_semaphore
    limiter_period,  \* self._enrich_rate_limiter.period_seconds
    ids_n,           \* len(ids_to_fetch)
    wstate,          \* per identity, its _enrich_one_detail call: "queued",
                     \* "acquire" (on a worker, before the semaphore), then
                     \* holding a permit: "wait" (before rate_limiter.wait()),
                     \* "locked" (in wait(), holding the limiter's lock),
                     \* "get" (GET in flight); and "done"
    wtries,          \* per identity: the i of the loop of its _make_request
    semaphore,       \* permits of self._enrich_semaphore taken
    limiter_lock,    \* the call holding self._enrich_rate_limiter.lock, or 0
    ended,           \* history: the ways in which calls have ended so far
    stage            \* "running", or "returned" once _enrich_data_raw is past
                     \* the `with ThreadPoolExecutor` block

poolVars == <<workers_n, permits_n, limiter_period, ids_n, wstate, wtries, semaphore,
              limiter_lock, ended, stage>>

vars == <<rowsVars, rateVars, tokVars, oneVars, reqVars, consVars, pageVars, expVars, enrVars,
          chanVars, poolVars>>

\* What an action of one part leaves alone: the variables of the other parts.
\* A request uses the rate limiter and the token cache as a single caller.
RowsOnly == UNCHANGED <<rateVars, tokVars, oneVars, reqVars, consVars, pageVars, expVars,
                        enrVars, chanVars, poolVars>>
ChanOnly == UNCHANGED <<rowsVars, rateVars, tokVars, oneVars, reqVars, consVars, pageVars,
                        expVars, enrVars, poolVars>>
PoolOnly == UNCHANGED <<rowsVars, rateVars, tokVars, oneVars, reqVars, consVars, pageVars,
                        expVars, enrVars, chanVars>>
RateOnly == UNCHANGED <<rowsVars, tokVars, oneVars, reqVars, consVars, pageVars, expVars, enrVars,
                        chanVars, poolVars>>
TokOnly == UNCHANGED <<rowsVars, rateVars, oneVars, reqVars, consVars, pageVars, expVars, enrVars,
                        chanVars, poolVars>>
ReqOnly == UNCHANGED <<rowsVars, oneVars, period_seconds, lock, rpc, wake, calls, permits,
                       wall, wallTicks, tpc, top, tdata, tret, fopen, clobbered,
                       tokCalls, tokHist, consVars, pageVars, expVars, enrVars, chanVars, poolVars>>
ConsOnly == UNCHANGED <<rowsVars, rateVars, tokVars, oneVars, reqVars, pageVars, expVars, enrVars,
                        chanVars, poolVars>>
PageOnly == UNCHANGED <<rowsVars, rateVars, tokVars, oneVars, reqVars, consVars, expVars, enrVars,
                        chanVars, poolVars>>
ExpOnly == UNCHANGED <<rowsVars, rateVars, tokVars, oneVars, reqVars, consVars, pageVars, enrVars,
                        chanVars, poolVars>>
EnrOnly == UNCHANGED <<rowsVars, rateVars, tokVars, oneVars, reqVars, consVars, pageVars, expVars,
                       chanVars, poolVars>>
OneOnly == UNCHANGED <<rowsVars, rateVars, reqVars, consVars, pageVars, expVars, enrVars, chanVars, poolVars,
                       wall, wallTicks, tpc, top, tdata, tret, fopen, clobbered, tokHist>>

\* ==================================================================
\* _RateLimiter
\* ==================================================================

\* requests_per_minute values tried; 0 also stands for None (both are falsy).
\* The positive ones divide 60, so 60.0 / rpm is a whole number of seconds,
\* which the model counts in milliseconds.
RpmChoices == {-60, 0, 20, 30}

\* _RateLimiter.__init__: the spacing between two permitted requests.
PeriodSeconds(rpm) == IF rpm # 0 /\ rpm > 0 THEN 60000 \div rpm ELSE 0

\* Mutation of LockFree: the lock never blocks (wait() without mutual exclusion).
LockFreeAlways(l) == TRUE

\* `with self.lock:` can be entered only while nobody holds the lock.
LockFree(l) == l = 0

\* wait_time = self.period_seconds - (time.monotonic() - self.last_request_time)
WaitTime(period, now, last) == period - (now - last)

RateInit ==
    /\ period_seconds \in {PeriodSeconds(rpm) : rpm \in RpmChoices}
    /\ last_request_time = 0
    /\ lock = 0
    /\ mono = 0
    /\ rpc = [t \in Threads |-> "idle"]
    /\ wake = [t \in Threads |-> 0]
    /\ calls = [t \in Threads |-> 0]
    /\ permits = <<>>

\* wait(), line 31-32: with no period the call returns at once, touching nothing.
\* Otherwise the caller goes on to take the lock.
WaitEnter(t) ==
    /\ RateOnly
    /\ rpc[t] = "idle"
    /\ calls[t] < MaxCalls
    /\ IF period_seconds = 0
       THEN /\ calls' = [calls EXCEPT ![t] = @ + 1]
            /\ UNCHANGED rpc
       ELSE /\ rpc' = [rpc EXCEPT ![t] = "acquire"]
            /\ UNCHANGED calls
    /\ UNCHANGED <<period_seconds, last_request_time, lock, mono, wake, permits>>

\* wait(), line 33: `with self.lock:` entered.
WaitAcquire(t) ==
    /\ RateOnly
    /\ rpc[t] = "acquire"
    /\ LockFree(lock)
    /\ lock' = t
    /\ rpc' = [rpc EXCEPT ![t] = "check"]
    /\ UNCHANGED <<period_seconds, last_request_time, mono, wake, calls, permits>>

\* wait(), lines 34-36: the clock and last_request_time are read once; a positive
\* wait_time starts a sleep that ends no earlier than wait_time later.
WaitCheck(t) ==
    /\ RateOnly
    /\ rpc[t] = "check"
    /\ LET wait_time == WaitTime(period_seconds, mono, last_request_time)
       IN IF wait_time > 0
          THEN /\ wake' = [wake EXCEPT ![t] = mono + wait_time]
               /\ rpc' = [rpc EXCEPT ![t] = "sleep"]
          ELSE /\ rpc' = [rpc EXCEPT ![t] = "stamp"]
               /\ UNCHANGED wake
    /\ UNCHANGED <<period_seconds, last_request_time, lock, mono, calls, permits>>

\* wait(), line 36: time.sleep(wait_time) returns, at the requested instant or later.
WaitWake(t) ==
    /\ RateOnly
    /\ rpc[t] = "sleep"
    /\ mono >= wake[t]
    /\ rpc' = [rpc EXCEPT ![t] = "stamp"]
    /\ UNCHANGED <<period_seconds, last_request_time, lock, mono, wake, calls, permits>>

\* wait(), line 37: self.last_request_time = time.monotonic(). This stamp is the
\* instant at which the request of caller t is permitted.
WaitStamp(t) ==
    /\ RateOnly
    /\ rpc[t] = "stamp"
    /\ last_request_time' = mono
    /\ permits' = Append(permits, [t |-> t, at |-> mono])
    /\ rpc' = [rpc EXCEPT ![t] = "release"]
    /\ UNCHANGED <<period_seconds, lock, mono, wake, calls>>

\* wait(), end of the `with` block: the lock is released and wait() returns.
WaitRelease(t) ==
    /\ RateOnly
    /\ rpc[t] = "release"
    /\ lock' = 0
    /\ rpc' = [rpc EXCEPT ![t] = "idle"]
    /\ calls' = [calls EXCEPT ![t] = @ + 1]
    /\ UNCHANGED <<period_seconds, last_request_time, mono, wake, permits>>

\* The monotonic clock advances by a second (any thread may be delayed by the
\* scheduler meanwhile).
Tick ==
    /\ RateOnly
    /\ mono < MaxTicks * 1000
    /\ mono' = mono + 1000
    /\ UNCHANGED <<period_seconds, last_request_time, lock, rpc, wake, calls, permits>>

\* ==================================================================
\* OAuth2Client: token cache file, ensure_access_token, refresh, exchange_code
\* ==================================================================

\* self.expiry_buffer: a token is renewed this many seconds before it expires.
expiry_buffer == 300

\* token_data.get("expires_in", 3600): the lifetime assumed when none is declared.
DefaultExpiresIn == 3600

\* Lifetimes the token endpoint declares: one inside the buffer, one ordinary.
ExpiresInChoices == {120, DefaultExpiresIn}

\* The cache file. rt = 0 stands for "no refresh_token key"; token numbers are >= 1.
\* "unreadable" is a file that exists but holds no JSON document: freshly
\* truncated by open(path, "w"), or garbled by two overlapping writers.
FileAbsent == [state |-> "absent", at |-> 0, rt |-> 0, exp |-> 0]
FileUnreadable == [state |-> "unreadable", at |-> 0, rt |-> 0, exp |-> 0]
FileJson(d) == [state |-> "json", at |-> d.at, rt |-> d.rt, exp |-> d.exp]

NoData == [at |-> 0, rt |-> 0, exp |-> 0]

\* _load_tokens: {} (ok = FALSE) when the file is missing or is not JSON.
LoadTokens(f) ==
    IF f.state = "json"
    THEN [ok |-> TRUE, at |-> f.at, rt |-> f.rt, exp |-> f.exp]
    ELSE [ok |-> FALSE, at |-> 0, rt |-> 0, exp |-> 0]

\* Mutation of IsExpired: the buffer is left out.
IsExpiredNoBuffer(now, expires_at) == now >= expires_at

\* ensure_access_token, line 64: now >= (expires_at - self.expiry_buffer)
IsExpired(now, expires_at) == now >= expires_at - expiry_buffer

\* Mutation of MergedRefreshToken: the stored refresh token is never merged in.
MergedRefreshTokenDropped(token_data, old) == token_data.rt

\* _save_tokens, lines 153-157: the refresh token written to the file. A response
\* without one takes over the one of the file's current content, if it has any.
MergedRefreshToken(token_data, old) ==
    IF token_data.rt = 0
    THEN (IF old.ok /\ old.rt # 0 THEN old.rt ELSE 0)
    ELSE token_data.rt

\* _save_tokens, lines 150-151: expires_at = time.time() + expires_in; d.exp
\* holds expires_in on entry and expires_at on return.
ExpiresAt(d, now) == [d EXCEPT !.exp = now + d.exp]

\* _save_tokens, lines 150-157, with no other caller in between: token_data
\* as it will be written, old being the file's content.
SaveMerge(d, old, now) ==
    [at |-> d.at, rt |-> MergedRefreshToken(d, old), exp |-> now + d.exp]

\* What the token endpoint may answer to a POST. status 0 is a network-level
\* failure (no response); a 200 carries a new access token, a lifetime and
\* possibly a new refresh token.
TokenResponses ==
    [status : {0, 400, 401, 500}, rt_given : {FALSE}, expires_in : {DefaultExpiresIn}]
    \cup [status : {200}, rt_given : BOOLEAN, expires_in : ExpiresInChoices]

\* The token_data of a 200 response, numbered by the endpoint's issue counter.
ResponseData(resp, n) ==
    [at |-> n, rt |-> IF resp.rt_given THEN n ELSE 0, exp |-> resp.expires_in]

AuthenticationError == -1

TokHist0(f) ==
    [initExpired |-> f.state = "json" /\ f.rt # 0 /\ IsExpired(10000, f.exp),
     kinds |-> {},          \* the calls started so far
     raised |-> FALSE,      \* some call raised AuthenticationError
     short |-> FALSE,       \* a lifetime inside the buffer was issued
     garbled |-> FALSE,     \* two overlapping writers left a file that is not JSON
     returned |-> 0,        \* the access token of the last refresh or exchange to return
     initRT |-> f.state = "json" /\ f.rt # 0]  \* the file held a refresh token at first

\* The cache files a run may start from: none, or a token that is fresh or
\* expired, with or without a refresh token.
InitialFiles ==
    {FileAbsent} \cup
    {FileJson([at |-> 1, rt |-> r, exp |-> e]) : r \in {0, 1}, e \in {10000, 10000 + DefaultExpiresIn}}

TokInit ==
    /\ cache \in InitialFiles
    /\ wall = 10000
    /\ wallTicks = 0
    /\ issued = 1
    /\ tpc = [t \in Threads |-> "idle"]
    /\ top = [t \in Threads |-> "none"]
    /\ tdata = [t \in Threads |-> NoData]
    /\ tret = [t \in Threads |-> 0]
    /\ fopen = {}
    /\ clobbered = {}
    /\ tokCalls = 0
    /\ refreshPosts = 0
    /\ tokHist = TokHist0(cache)

\* A call of caller t begins.
TokBegin(t, kind) ==
    /\ tpc[t] = "idle"
    /\ tokCalls < MaxTokCalls
    /\ tokCalls' = tokCalls + 1
    /\ top' = [top EXCEPT ![t] = kind]

\* Caller t's call ends by raising AuthenticationError.
TokRaise(t) ==
    /\ tpc' = [tpc EXCEPT ![t] = "idle"]
    /\ tret' = [tret EXCEPT ![t] = AuthenticationError]
    /\ tdata' = [tdata EXCEPT ![t] = NoData]

\* ensure_access_token, lines 52-59: the file is read; without tokens the call
\* raises, and otherwise goes on with what it read.
EnsureAccessToken(t) ==
    /\ TokOnly
    /\ TokBegin(t, "ensure")
    /\ LET tokens == LoadTokens(cache)
       IN IF ~tokens.ok
          THEN /\ TokRaise(t)
               /\ tokHist' = [tokHist EXCEPT !.kinds = @ \cup {"ensure"}, !.raised = TRUE]
          ELSE /\ tpc' = [tpc EXCEPT ![t] = "e_now"]
               /\ tdata' = [tdata EXCEPT ![t] = [at |-> tokens.at, rt |-> tokens.rt,
                                                 exp |-> tokens.exp]]
               /\ tokHist' = [tokHist EXCEPT !.kinds = @ \cup {"ensure"}]
               /\ UNCHANGED tret
    /\ UNCHANGED <<cache, wall, wallTicks, issued, fopen, clobbered, refreshPosts>>

\* ensure_access_token, lines 61-73: the clock is read and the tokens read
\* before are judged by it, up to the call of refresh(refresh_token).
EnsureCheck(t) ==
    /\ TokOnly
    /\ tpc[t] = "e_now"
    /\ LET tokens == tdata[t]
       IN IF IsExpired(wall, tokens.exp)
          THEN IF tokens.rt = 0
               THEN /\ TokRaise(t)
                    /\ tokHist' = [tokHist EXCEPT !.raised = TRUE]
               ELSE /\ tpc' = [tpc EXCEPT ![t] = "r_post"]
                    /\ tdata' = [tdata EXCEPT ![t] = [at |-> 0, rt |-> tokens.rt, exp |-> 0]]
                    /\ UNCHANGED <<tret, tokHist>>
          ELSE /\ tret' = [tret EXCEPT ![t] = tokens.at]
               /\ tpc' = [tpc EXCEPT ![t] = "idle"]
               /\ tdata' = [tdata EXCEPT ![t] = NoData]
               /\ UNCHANGED tokHist
    /\ UNCHANGED <<cache, wall, wallTicks, issued, top, fopen, clobbered, tokCalls,
                   refreshPosts>>

\* refresh() called without an argument, lines 108-113.
Refresh(t) ==
    /\ TokOnly
    /\ TokBegin(t, "refresh")
    /\ LET tokens == LoadTokens(cache)
       IN IF tokens.rt = 0
          THEN /\ TokRaise(t)
               /\ tokHist' = [tokHist EXCEPT !.kinds = @ \cup {"refresh"}, !.raised = TRUE]
          ELSE /\ tpc' = [tpc EXCEPT ![t] = "r_post"]
               /\ tdata' = [tdata EXCEPT ![t] = [at |-> 0, rt |-> tokens.rt, exp |-> 0]]
               /\ tokHist' = [tokHist EXCEPT !.kinds = @ \cup {"refresh"}]
               /\ UNCHANGED tret
    /\ UNCHANGED <<cache, wall, wallTicks, issued, fopen, clobbered, refreshPosts>>

\* The answer to a POST reaches caller t: a 200 goes on to _save_tokens(data),
\* anything else ends the call with AuthenticationError (lines 98-102, 127-142).
TokAnswer(t, resp) ==
    IF resp.status = 200
    THEN /\ issued' = issued + 1
         /\ tdata' = [tdata EXCEPT ![t] = ResponseData(resp, issued + 1)]
         /\ tpc' = [tpc EXCEPT ![t] = "s_stamp"]
         /\ UNCHANGED tret
    ELSE /\ TokRaise(t)
         /\ UNCHANGED issued

\* refresh(), lines 117-133: the POST with grant_type=refresh_token and its answer.
RefreshPost(t) ==
    /\ TokOnly
    /\ tpc[t] = "r_post"
    /\ refreshPosts' = refreshPosts + 1
    /\ \E resp \in TokenResponses :
        /\ TokAnswer(t, resp)
        /\ tokHist' = [tokHist EXCEPT
                         !.raised = @ \/ resp.status # 200,
                         !.short = @ \/ (resp.status = 200 /\ resp.expires_in <= expiry_buffer)]
    /\ UNCHANGED <<cache, wall, wallTicks, top, fopen, clobbered, tokCalls>>

\* exchange_code(code), lines 82-94: the POST with grant_type=authorization_code.
ExchangeCode(t) ==
    /\ TokOnly
    /\ TokBegin(t, "exchange")
    /\ \E resp \in TokenResponses :
        /\ TokAnswer(t, resp)
        /\ tokHist' = [tokHist EXCEPT
                         !.kinds = @ \cup {"exchange"},
                         !.raised = @ \/ resp.status # 200,
                         !.short = @ \/ (resp.status = 200 /\ resp.expires_in <= expiry_buffer)]
    /\ UNCHANGED <<cache, wall, wallTicks, fopen, clobbered, refreshPosts>>

\* _save_tokens, lines 150-153: the clock is read and expires_at computed; a
\* response without a refresh token goes on to read the file.
SaveStamp(t) ==
    /\ TokOnly
    /\ tpc[t] = "s_stamp"
    /\ tdata' = [tdata EXCEPT ![t] = ExpiresAt(tdata[t], wall)]
    /\ tpc' = [tpc EXCEPT ![t] = IF tdata[t].rt = 0 THEN "s_load" ELSE "s_open"]
    /\ UNCHANGED <<cache, wall, wallTicks, issued, top, tret, fopen, clobbered,
                   tokCalls, refreshPosts, tokHist>>

\* _save_tokens, lines 154-157: the file is read for the refresh token stored
\* before, as the file is at that moment.
SaveLoad(t) ==
    /\ TokOnly
    /\ tpc[t] = "s_load"
    /\ tdata' = [tdata EXCEPT ![t].rt = MergedRefreshToken(tdata[t], LoadTokens(cache))]
    /\ tpc' = [tpc EXCEPT ![t] = "s_open"]
    /\ UNCHANGED <<cache, wall, wallTicks, issued, top, tret, fopen, clobbered,
                   tokCalls, refreshPosts, tokHist>>

\* _save_tokens, line 160: open(self.cache_path, "w") truncates the file.
SaveOpen(t) ==
    /\ TokOnly
    /\ tpc[t] = "s_open"
    /\ cache' = FileUnreadable
    /\ fopen' = fopen \cup {t}
    /\ tpc' = [tpc EXCEPT ![t] = "s_dump"]
    /\ UNCHANGED <<wall, wallTicks, issued, top, tdata, tret, clobbered,
                   tokCalls, refreshPosts, tokHist>>

\* _save_tokens, lines 161-162: json.dump and the close of the file put the
\* document in the file, and the call (refresh, exchange_code, and through
\* refresh also ensure_access_token) returns the new token. When another caller
\* wrote the file since this one opened it, this document overwrites the other
\* from offset 0: the file holds this document, or this one followed by the
\* tail of a longer one, which is not JSON.
SaveDump(t) ==
    /\ TokOnly
    /\ tpc[t] = "s_dump"
    /\ cache' \in (IF t \in clobbered THEN {FileJson(tdata[t]), FileUnreadable}
                                      ELSE {FileJson(tdata[t])})
    /\ clobbered' = (clobbered \cup fopen) \ {t}
    /\ fopen' = fopen \ {t}
    /\ tret' = [tret EXCEPT ![t] = tdata[t].at]
    /\ tpc' = [tpc EXCEPT ![t] = "idle"]
    /\ tokHist' = [tokHist EXCEPT !.garbled = @ \/ cache'.state # "json",
                                  !.returned = tdata[t].at]
    /\ UNCHANGED <<wall, wallTicks, issued, top, tdata, tokCalls, refreshPosts>>

\* Time passes: the wall clock jumps ahead by one default token lifetime.
WallTick ==
    /\ TokOnly
    /\ wallTicks < MaxWallTicks
    /\ wallTicks' = wallTicks + 1
    /\ wall' = wall + DefaultExpiresIn
    /\ UNCHANGED <<cache, issued, tpc, top, tdata, tret, fopen, clobbered,
                   tokCalls, refreshPosts, tokHist>>

TokNext ==
    \/ \E t \in Threads : EnsureAccessToken(t)
    \/ \E t \in Threads : Refresh(t)
    \/ \E t \in Threads : RefreshPost(t)
    \/ \E t \in Threads : ExchangeCode(t)
    \/ \E t \in Threads : EnsureCheck(t)
    \/ \E t \in Threads : SaveStamp(t)
    \/ \E t \in Threads : SaveLoad(t)
    \/ \E t \in Threads : SaveOpen(t)
    \/ \E t \in Threads : SaveDump(t)
    \/ WallTick


\* ==================================================================
\* OAuth2Client as one caller sees it (no other caller in between)
\* ==================================================================

\* Mutation of RefreshSeq: a refresh that fails removes the stored record.
RefreshSeqForgets(f, now, n, resp) ==
    IF resp.status = 200
    THEN LET d == SaveMerge(ResponseData(resp, n + 1), LoadTokens(f), now)
         IN [raised |-> FALSE, at |-> d.at, file |-> FileJson(d), issued |-> n + 1, posts |-> 1]
    ELSE [raised |-> TRUE, at |-> 0, file |-> FileAbsent, issued |-> n, posts |-> 1]

\* refresh(refresh_token), lines 117-142, with the endpoint answering resp:
\* one POST; a 200 is saved by _save_tokens (whole, lines 144-164) and returned.
RefreshSeq(f, now, n, resp) ==
    IF resp.status = 200
    THEN LET d == SaveMerge(ResponseData(resp, n + 1), LoadTokens(f), now)
         IN [raised |-> FALSE, at |-> d.at, file |-> FileJson(d), issued |-> n + 1, posts |-> 1]
    ELSE [raised |-> TRUE, at |-> 0, file |-> f, issued |-> n, posts |-> 1]

\* refresh() without an argument, lines 108-113: the stored refresh token is used.
RefreshStored(f, now, n, resp) ==
    IF LoadTokens(f).rt = 0
    THEN [raised |-> TRUE, at |-> 0, file |-> f, issued |-> n, posts |-> 0]
    ELSE RefreshSeq(f, now, n, resp)

\* ensure_access_token(), lines 52-73.
EnsureSeq(f, now, n, resp) ==
    LET tokens == LoadTokens(f)
        fails == [raised |-> TRUE, at |-> 0, file |-> f, issued |-> n, posts |-> 0]
    IN IF ~tokens.ok THEN fails
       ELSE IF IsExpired(now, tokens.exp)
            THEN (IF tokens.rt = 0 THEN fails ELSE RefreshSeq(f, now, n, resp))
            ELSE [raised |-> FALSE, at |-> tokens.at, file |-> f, issued |-> n, posts |-> 0]

\* exchange_code(code), lines 76-102: one POST; raise_for_status() turns every
\* status from 400 on into an error; a 200 is saved and returned.
ExchangeSeq(f, now, n, resp) ==
    IF resp.status = 200
    THEN LET d == SaveMerge(ResponseData(resp, n + 1), LoadTokens(f), now)
         IN [raised |-> FALSE, at |-> d.at, file |-> FileJson(d), issued |-> n + 1, posts |-> 1]
    ELSE [raised |-> TRUE, at |-> 0, file |-> f, issued |-> n, posts |-> 1]

\* No call has been made yet.
OneInit == seqlog = <<>>

\* One whole call of the client, answered by resp if it reaches the token
\* endpoint: the file, the endpoint's counter and the POST count move on, and
\* the call is written down with the file it found and the file it left.
OneCall(op, r, resp) ==
    /\ OneOnly
    /\ tokCalls < MaxTokCalls
    /\ tokCalls' = tokCalls + 1
    /\ cache' = r.file
    /\ issued' = r.issued
    /\ refreshPosts' = refreshPosts + (IF op = "exchange_code" THEN 0 ELSE r.posts)
    /\ seqlog' = Append(seqlog,
                        [op |-> op, now |-> wall, before |-> cache, after |-> r.file,
                         status |-> IF r.posts = 0 THEN -1 ELSE resp.status,
                         raised |-> r.raised, at |-> r.at, posts |-> r.posts])

OneEnsure == \E resp \in TokenResponses :
    OneCall("ensure_access_token", EnsureSeq(cache, wall, issued, resp), resp)

OneRefresh == \E resp \in TokenResponses :
    OneCall("refresh", RefreshStored(cache, wall, issued, resp), resp)

OneExchange == \E resp \in TokenResponses :
    OneCall("exchange_code", ExchangeSeq(cache, wall, issued, resp), resp)

OneNext ==
    \/ OneEnsure
    \/ OneRefresh
    \/ OneExchange
    \/ WallTick

\* ==================================================================
\* APISourceAdapter._make_request
\* ==================================================================

\* self.retryable_status_codes (set in __init__, read nowhere in the adapter).
retryable_status_codes == {429, 500, 502, 503, 504}

\* self._backoff_base, API_BACKOFF_BASE = 0.5 s, in milliseconds.
backoff_base == 500

NoException == -1

\* What the upstream may answer to a GET. status 0 is a network-level failure
\* (a requests.exceptions.RequestException without a response); retry_after is
\* the Retry-After header in milliseconds, 0 when the header is absent.
HttpResponses ==
    [status : {0, 200, 401, 404, 503}, retry_after : {0}]
    \cup [status : {429}, retry_after : {0, 7000}]

RECURSIVE Pow2(_)
Pow2(n) == IF n = 0 THEN 1 ELSE 2 * Pow2(n - 1)

\* Line 141: time.sleep(self._backoff_base * (2 ** i)).
Backoff(i) == backoff_base * Pow2(i)

\* Mutation of ForcesRefresh: a 401 is handled like any other failure.
ForcesRefreshNever(status, oauth) == FALSE

\* Line 132: response.status_code == 401 and self._oauth_client.
ForcesRefresh(status, oauth) == status = 401 /\ oauth

\* The GET raised, or line 136, response.raise_for_status(), raises.
Fails(r) == r.status = 0 \/ r.status >= 400

\* Mutation of LoopContinues: one attempt too many.
LoopContinuesOneMore(i, n) == i <= n

\* Line 128: for i in range(self._max_retries).
LoopContinues(i, n) == i < n

\* wait() by a single caller, lines 30-37: the sleep taken and the new stamp.
AfterWait(period, now, last) ==
    IF period = 0
    THEN [mono |-> now, last |-> last]
    ELSE LET wait_time == WaitTime(period, now, last)
             woke == IF wait_time > 0 THEN now + wait_time ELSE now
         IN [mono |-> woke, last |-> woke]

\* ==================================================================
\* APISourceAdapter: the main and the enrichment rate limiter
\* ==================================================================

\* _RateLimiter(requests_per_minute), lines 20-26.
RateLimiter(rpm) == [period_seconds |-> PeriodSeconds(rpm), last_request_time |-> 0]

\* Line 92: rpm_enrich = enrichment_requests_per_minute or requests_per_minute.
RpmEnrich(rpm_e, rpm) == IF rpm_e # 0 THEN rpm_e ELSE rpm

\* Mutation of LimiterOf: every request goes through the main limiter.
LimiterOfShared(kind) == "main"

\* The rate_limiter argument of _make_request: self._main_rate_limiter for a
\* page (line 254), self._enrich_rate_limiter for a detail (line 298).
LimiterOf(kind) == IF kind = "page" THEN "main" ELSE "enrich"

\* Lines 91-93.
ChanInit ==
    /\ requests_per_minute \in RpmChoices
    /\ enrichment_requests_per_minute \in {0, 20, 60}
    /\ main_rate_limiter = RateLimiter(requests_per_minute)
    /\ enrich_rate_limiter =
          RateLimiter(RpmEnrich(enrichment_requests_per_minute, requests_per_minute))
    /\ cmono = 0
    /\ cticks = 0
    /\ chan_log = <<>>

\* A request of the given kind: wait() on its limiter (lines 128 and 28-37),
\* which sleeps what is due and stamps that limiter.
ChanRequest(kind) ==
    /\ ChanOnly
    /\ Len(chan_log) < MaxChanRequests
    /\ LET name == LimiterOf(kind)
           lim == IF name = "main" THEN main_rate_limiter ELSE enrich_rate_limiter
           w == AfterWait(lim.period_seconds, cmono, lim.last_request_time)
           stamped == [lim EXCEPT !.last_request_time = w.last]
           main2 == IF name = "main" THEN stamped ELSE main_rate_limiter
           enrich2 == IF name = "main" THEN enrich_rate_limiter ELSE stamped
       IN /\ main_rate_limiter' = main2
          /\ enrich_rate_limiter' = enrich2
          /\ cmono' = w.mono
          /\ chan_log' = Append(chan_log,
                                [kind |-> kind, at |-> w.mono,
                                 main_before |-> main_rate_limiter, main_after |-> main2,
                                 enrich_before |-> enrich_rate_limiter, enrich_after |-> enrich2])
    /\ UNCHANGED <<requests_per_minute, enrichment_requests_per_minute, cticks>>

\* Line 254: a page request of _fetch_all_pages.
PageGet == ChanRequest("page")

\* Line 298: a detail request of _enrich_one_detail.
DetailGet == ChanRequest("detail")

\* Time passes between two requests.
ChanTick ==
    /\ ChanOnly
    /\ cticks < MaxChanTicks
    /\ cticks' = cticks + 1
    /\ cmono' = cmono + 1000
    /\ UNCHANGED <<requests_per_minute, enrichment_requests_per_minute, main_rate_limiter,
                   enrich_rate_limiter, chan_log>>

ChanNext ==
    \/ PageGet
    \/ DetailGet
    \/ ChanTick

\* self._get_headers(), lines 116-124.
GetHeaders(f, now, n) ==
    IF has_oauth
    THEN EnsureSeq(f, now, n, endpoint)
    ELSE [raised |-> FALSE, at |-> 0, file |-> f, issued |-> n, posts |-> 0]

Ev(e, a, ra, t) == [ev |-> e, arg |-> a, ra |-> ra, at |-> t]

\* The events _get_headers adds: a refresh made by ensure_access_token.
HeaderEvents(h, t) == IF h.posts > 0 THEN <<Ev("ensure_refresh", 0, 0, t)>> ELSE <<>>

\* The endpoint behaviours tried: a rejected refresh, and accepted ones.
Endpoints ==
    [status : {400}, rt_given : {FALSE}, expires_in : {DefaultExpiresIn}]
    \cup [status : {200}, rt_given : BOOLEAN, expires_in : ExpiresInChoices]

ReqInit ==
    /\ max_retries \in 0..MaxRetriesCap
    /\ has_oauth \in BOOLEAN
    /\ endpoint \in Endpoints
    /\ qpc = "loop"
    /\ att = 0
    /\ last_exc = NoException
    /\ outcome = "none"
    /\ qlog = <<>>

\* Mutation of IsRequestException: the except clause catches everything.
IsRequestExceptionAny(exc) == TRUE

\* Line 138: except requests.exceptions.RequestException. AuthenticationError
\* derives from DataMatError and is not one.
IsRequestException(exc) == exc \in {"HTTPError", "ConnectionError"}

\* Lines 139-141: the failure is kept in last_exc, the backoff slept and the
\* next attempt due.
Retry(code, log, now) ==
    /\ last_exc' = code
    /\ qlog' = Append(log, Ev("sleep", Backoff(att), 0, now))
    /\ mono' = now + Backoff(att)
    /\ att' = att + 1
    /\ qpc' = "loop"
    /\ UNCHANGED outcome

\* exc is raised inside the try block of an attempt: line 138 catches it, or
\* it ends the call by leaving _make_request.
ReqRaise(exc, log, now) ==
    LET log2 == Append(log, Ev("raise", 0, 0, now))
    IN IF IsRequestException(exc)
       THEN Retry(AuthenticationError, log2, now)
       ELSE /\ qpc' = "done"
            /\ outcome' = exc
            /\ qlog' = log2
            /\ mono' = now
            /\ UNCHANGED <<att, last_exc>>

\* Lines 136-141 for the response r of attempt att: return it, or record the
\* failure, sleep the backoff and go to the next attempt.
Settle(r, log, now) ==
    IF ~Fails(r)
    THEN /\ qpc' = "done"
         /\ outcome' = "returned"
         /\ qlog' = log
         /\ mono' = now
         /\ UNCHANGED <<att, last_exc>>
    ELSE Retry(r.status, log, now)

\* One attempt, lines 128-131: wait(), _get_headers(), the GET; then line 132
\* sends a 401 under OAuth2 to the forced refresh, and anything else to
\* lines 136-141.
ReqAttempt ==
    /\ ReqOnly
    /\ qpc = "loop"
    /\ LoopContinues(att, max_retries)
    /\ LET w == AfterWait(period_seconds, mono, last_request_time)
           h == GetHeaders(cache, wall, issued)
           log == qlog \o <<Ev("wait", 0, 0, w.mono)>> \o HeaderEvents(h, w.mono)
       IN /\ last_request_time' = w.last
          /\ cache' = h.file
          /\ issued' = h.issued
          /\ refreshPosts' = refreshPosts + h.posts
          /\ IF h.raised
             THEN ReqRaise("AuthenticationError", log, w.mono)
             ELSE \E r \in HttpResponses :
                    LET log2 == Append(log, Ev("get", r.status, r.retry_after, w.mono))
                    IN IF ForcesRefresh(r.status, has_oauth)
                       THEN /\ qpc' = "forced"
                            /\ qlog' = log2
                            /\ mono' = w.mono
                            /\ UNCHANGED <<att, last_exc, outcome>>
                       ELSE Settle(r, log2, w.mono)
    /\ UNCHANGED <<max_retries, has_oauth, endpoint>>

\* Lines 133-135 and then 136-141: refresh(), _get_headers() and the GET again.
ReqForcedRefresh ==
    /\ ReqOnly
    /\ qpc = "forced"
    /\ LET f == RefreshStored(cache, wall, issued, endpoint)
           h == GetHeaders(f.file, wall, f.issued)
           log == Append(qlog, Ev("refresh", 0, 0, mono))
       IN /\ UNCHANGED last_request_time
          /\ IF f.raised
             THEN /\ cache' = f.file
                  /\ issued' = f.issued
                  /\ refreshPosts' = refreshPosts + f.posts
                  /\ ReqRaise("AuthenticationError", log, mono)
             ELSE /\ cache' = h.file
                  /\ issued' = h.issued
                  /\ refreshPosts' = refreshPosts + f.posts + h.posts
                  /\ IF h.raised
                     THEN ReqRaise("AuthenticationError", log \o HeaderEvents(h, mono), mono)
                     ELSE \E r \in HttpResponses :
                            Settle(r, (log \o HeaderEvents(h, mono))
                                        \o <<Ev("get", r.status, r.retry_after, mono)>>, mono)
    /\ UNCHANGED <<max_retries, has_oauth, endpoint>>

\* Line 142: the loop is over; DataExtractionError is raised from last_exc.
ReqExhausted ==
    /\ ReqOnly
    /\ qpc = "loop"
    /\ ~LoopContinues(att, max_retries)
    /\ qpc' = "done"
    /\ outcome' = "DataExtractionError"
    /\ UNCHANGED <<max_retries, has_oauth, endpoint, att, last_exc, qlog>>
    /\ UNCHANGED <<last_request_time, mono, cache, issued, refreshPosts>>

ReqNext ==
    \/ ReqAttempt
    \/ ReqForcedRefresh
    \/ ReqExhausted

\* ==================================================================
\* APISourceAdapter.extract_raw: full passes and consolidation by 'id'
\* ==================================================================

\* Record identities. NoId marks a record without an 'id' key (or a row that
\* is not a dict): line 201 treats both alike.
Ids == {1, 2}
NoId == 0

\* A raw record: its identity and the rest of its content.
Records == [id : Ids, v : {1, 2}] \cup [id : {NoId}, v : {1}]

\* A pass in which one identity comes twice and one record has no identity.
MixedRows == <<[id |-> 1, v |-> 1], [id |-> 1, v |-> 2], [id |-> NoId, v |-> 1]>>

\* The row lists one full pass (_execute_full_pass) may return.
RowLists == UNION {[1..n -> Records] : n \in 0..MaxRows} \cup {MixedRows}

IdsOf(rows) == {rows[k].id : k \in 1..Len(rows)} \ {NoId}

\* Mutation of Put: the first record seen for an identity is kept.
PutKeepFirst(dict, rec) ==
    IF \E k \in 1..Len(dict) : dict[k].id = rec.id THEN dict ELSE Append(dict, rec)

\* Line 202: consolidated_data[record['id']] = record. An identity already in
\* the dict keeps its place and takes the new record.
Put(dict, rec) ==
    IF \E k \in 1..Len(dict) : dict[k].id = rec.id
    THEN [k \in 1..Len(dict) |-> IF dict[k].id = rec.id THEN rec ELSE dict[k]]
    ELSE Append(dict, rec)

\* Mutation of MergeRows: records without identity are consolidated too.
MergeRowsKeepsIdless(dict, rows) ==
    dict \o SelectSeq(rows, LAMBDA r : \A k \in 1..Len(dict) : dict[k].id # r.id \/ r.id = NoId)

\* Mutation of MergeRows: every record with an identity is appended.
MergeRowsAppend(dict, rows) ==
    dict \o SelectSeq(rows, LAMBDA r : r.id # NoId)

\* Lines 200-202 over a whole pass: the records with an identity are merged
\* in fetch order.
RECURSIVE MergeRows(_, _)
MergeRows(dict, rows) ==
    IF rows = <<>> THEN dict
    ELSE MergeRows(IF Head(rows).id # NoId THEN Put(dict, Head(rows)) ELSE dict, Tail(rows))

\* The identity column of the rows of one pass, in fetch order.
IdColumn(rows) == [k \in 1..Len(rows) |-> rows[k].id]

\* The elements of an identity column, as a set.
ColumnSet(col) == {col[k] : k \in 1..Len(col)}

\* Mutation of SinglePass: the single-pass return is never taken.
SinglePassNever(n) == FALSE

\* Line 209: if self.max_passes == 1.
SinglePass(n) == n = 1

\* Mutation of HasIdless: a record without identity goes unnoticed.
HasIdlessNever(rows) == FALSE

\* Lines 203-206: some record of the pass has no identity.
HasIdless(rows) == \E k \in 1..Len(rows) : rows[k].id = NoId

\* Mutation of BreaksOnEmpty: an empty pass always ends the loop by break.
BreaksOnEmptyAlways(i) == TRUE

\* Lines 193-197: an empty pass breaks out of the loop when i > 1; the first
\* pass returns [] instead.
BreaksOnEmpty(i) == i > 1

\* The record fetched last for each identity, after the rows of one more pass.
LatestAfter(latest, rows) ==
    {r \in latest : \A k \in 1..Len(rows) : rows[k].id # r.id}
    \cup {rows[k] : k \in {n \in 1..Len(rows) :
                               /\ rows[n].id # NoId
                               /\ \A j \in (n + 1)..Len(rows) : rows[j].id # rows[n].id}}

\* Mutation of Stabilized: the first pass may declare the set stable too.
StabilizedAnyPass(before, after, i) == after = before

\* Line 218: unique_records_after == unique_records_before and i > 1.
Stabilized(before, after, i) == after = before /\ i > 1

\* Mutation of CoolsDown: a cool-down follows every pass that did not end the loop.
CoolsDownAlways(i, n) == TRUE

\* Line 222: a cool-down is taken when i < self.max_passes and i >= 1.
CoolsDown(i, n) == i < n /\ i >= 1

\* The record a successful detail fetch returns for an identity.
DetailRecord(id) == [id |-> id, v |-> 0]

\* list(set(...)), line 311, for the identities in ids: the lists it may
\* yield. The order of a Python set is unspecified, so every ordering of the
\* identities, each taken once, is one of them.
IdLists(ids) ==
    {l \in [1..Cardinality(ids) -> ids] : \A i, j \in DOMAIN l : i # j => l[i] # l[j]}

DetailOf(id) == DetailRecord(id)
IsFetched(id, ok) == id \in ok

\* _enrich_data_raw, lines 306-334, when list(set(...)) yields the identities
\* in the order to_fetch and the detail fetch succeeds exactly for the
\* identities in ok (_enrich_one_detail returns None for the others).
EnrichDataRaw(raw, ok, to_fetch) ==
    IF raw = <<>> \/ raw[1].id = NoId
    THEN [raised |-> TRUE, rows |-> <<>>]
    ELSE LET fetched == SelectSeq(to_fetch, LAMBDA id : IsFetched(id, ok))
             enriched_rows == [k \in 1..Len(fetched) |-> DetailOf(fetched[k])]
         IN IF to_fetch = <<>> \/ enriched_rows = <<>>
            THEN [raised |-> FALSE, rows |-> raw]
            ELSE [raised |-> FALSE, rows |-> enriched_rows]

\* Mutation of Propagates: extract_raw ends the loop on the error and goes on
\* with what it has.
PropagatesNever(exc) == FALSE

\* Lines 185 and 160-166: neither extract_raw nor _execute_full_pass has an
\* except clause around the page fetches, so the DataExtractionError of
\* _fetch_all_pages leaves extract_raw.
Propagates(exc) == exc = "DataExtractionError"

XHist0 ==
    [passes |-> 0,          \* full passes executed
     cooldowns |-> 0,       \* time.sleep(5) taken
     zero_at |-> 0,         \* the first pass after the first that added no identity
     first_empty |-> FALSE, \* the first pass returned no row
     last_new |-> 0,        \* identities the last executed pass added
     raw_return |-> FALSE,  \* line 206 returned the raw rows of the pass
     seen |-> {},           \* the identities the executed passes returned
     first_ids |-> <<>>,    \* the identity column of the first pass
     same12 |-> FALSE,      \* pass 2 returned the identities of pass 1
     reordered12 |-> FALSE, \* ... in another order
     compared |-> 0,        \* evaluations of the stabilization test, line 218
     empty_at |-> 0,        \* the pass after the first that returned no row
     enrich_calls |-> 0,    \* calls of _enrich_data_raw
     latest |-> {},         \* the record fetched last for each identity
     replaced |-> FALSE,    \* a later pass brought another record for a known identity
     failed_at |-> 0,       \* the pass in which a page request exhausted its retries
     out |-> {}]            \* the records consolidation yielded

ConsInit ==
    /\ max_passes \in 1..MaxPassesCap
    /\ enrich_by_id \in BOOLEAN
    /\ up_frozen \in BOOLEAN
    /\ up_fixed = up_frozen
    /\ up_rows \in (IF up_frozen THEN RowLists ELSE {<<>>})
    /\ xpc = "pass"
    /\ pass_i = 1
    /\ consolidated_data = <<>>
    /\ xresult = <<>>
    /\ xoutcome = "none"
    /\ xh = XHist0
    /\ runs = <<>>

\* extract_raw returns rows without going through lines 209-213 / 226-231.
XReturn(rows, h) ==
    /\ xpc' = "done"
    /\ xresult' = rows
    /\ xoutcome' = "returned"
    /\ xh' = [h EXCEPT !.out = {rows[k] : k \in 1..Len(rows)}]
    /\ runs' = Append(runs, [mp |-> max_passes, out |-> {rows[k] : k \in 1..Len(rows)}])

\* Line 185 when a page request of the pass exhausts its retries:
\* _fetch_all_pages raises DataExtractionError (lines 256-259).
XPassRaises ==
    /\ ~up_frozen
    /\ UNCHANGED <<up_rows, up_frozen, pass_i, consolidated_data, runs>>
    /\ xh' = [xh EXCEPT !.passes = @ + 1, !.failed_at = pass_i]
    /\ IF Propagates("DataExtractionError")
       THEN /\ xpc' = "done"
            /\ xoutcome' = "DataExtractionError"
            /\ xresult' = <<>>
       ELSE /\ xpc' = "finish"
            /\ UNCHANGED <<xoutcome, xresult>>

\* Line 185 when the pass returns its rows, and lines 187-224 after it.
XPassReturns ==
    \E rows \in (IF up_frozen THEN {up_rows} ELSE RowLists) :
    \E frozen \in (IF up_frozen THEN {TRUE} ELSE BOOLEAN) :
     LET unique_records_before == Len(consolidated_data)
         merged == MergeRows(consolidated_data, rows)
         unique_records_after == Len(merged)
         new_ids == IdsOf(rows) \ IdsOf(consolidated_data)
         h == [xh EXCEPT
                 !.passes = @ + 1,
                 !.first_empty = @ \/ (pass_i = 1 /\ rows = <<>>),
                 !.zero_at = IF @ = 0 /\ pass_i > 1 /\ new_ids = {} THEN pass_i ELSE @,
                 !.last_new = Cardinality(new_ids),
                 !.seen = @ \cup IdsOf(rows),
                 !.first_ids = IF pass_i = 1 THEN IdColumn(rows) ELSE @,
                 !.empty_at = IF pass_i > 1 /\ rows = <<>> THEN pass_i ELSE @,
                 !.latest = LatestAfter(@, rows),
                 !.replaced = @ \/ (/\ pass_i > 1
                                    /\ \E r \in xh.latest : \E k \in 1..Len(rows) :
                                          rows[k].id = r.id /\ rows[k] # r),
                 !.same12 = @ \/ (pass_i = 2 /\ ColumnSet(IdColumn(rows)) = ColumnSet(xh.first_ids)),
                 !.reordered12 = @ \/ (/\ pass_i = 2
                                       /\ ColumnSet(IdColumn(rows)) = ColumnSet(xh.first_ids)
                                       /\ IdColumn(rows) # xh.first_ids)]
         hc == [h EXCEPT !.compared = @ + 1]
     IN /\ up_rows' = (IF frozen THEN rows ELSE <<>>)
        /\ up_frozen' = frozen
        /\ IF rows = <<>>
           THEN \* lines 189-197
                IF BreaksOnEmpty(pass_i)
                THEN /\ xpc' = "finish"
                     /\ xh' = h
                     /\ UNCHANGED <<pass_i, consolidated_data, xresult, xoutcome, runs>>
                ELSE /\ XReturn(<<>>, h)
                     /\ UNCHANGED <<pass_i, consolidated_data>>
           ELSE IF max_passes = 1 /\ HasIdless(rows)
           THEN \* lines 203-206
                /\ XReturn(rows, [h EXCEPT !.raw_return = TRUE])
                /\ consolidated_data' =
                     MergeRows(consolidated_data,
                               SubSeq(rows, 1, (CHOOSE k \in 1..Len(rows) :
                                   rows[k].id = NoId /\ \A j \in 1..(k - 1) : rows[j].id # NoId)))
                /\ UNCHANGED pass_i
           ELSE /\ consolidated_data' = merged
                /\ UNCHANGED <<xresult, xoutcome, runs>>
                /\ IF SinglePass(max_passes)
                   THEN \* lines 209-213
                        /\ xpc' = "finish"
                        /\ xh' = h
                        /\ UNCHANGED pass_i
                   ELSE IF Stabilized(unique_records_before, unique_records_after, pass_i)
                   THEN \* lines 218-220
                        /\ xpc' = "finish"
                        /\ xh' = hc
                        /\ UNCHANGED pass_i
                   ELSE \* lines 222-224 and the next turn of the loop
                        /\ xh' = [hc EXCEPT !.cooldowns =
                                     IF CoolsDown(pass_i, max_passes) THEN @ + 1 ELSE @]
                        /\ pass_i' = pass_i + 1
                        /\ xpc' = IF pass_i + 1 <= max_passes THEN "pass" ELSE "finish"

\* One iteration of the loop of extract_raw, lines 179-224: a full pass of the
\* upstream, the merge of its rows, and the decision to go on or stop.
XPass ==
    /\ ConsOnly
    /\ xpc = "pass"
    /\ pass_i <= max_passes
    /\ (XPassRaises \/ XPassReturns)
    /\ UNCHANGED <<max_passes, enrich_by_id, up_fixed>>

\* Lines 209-213 and 226-231: the consolidated records, enriched when
\* enrich_by_id is set, are returned. ok: the identities whose detail fetch
\* succeeds; to_fetch: the order in which list(set(...)) yields them.
XFinish ==
    /\ ConsOnly
    /\ xpc = "finish"
    /\ xpc' = "done"
    /\ LET final_list == consolidated_data
           out == {final_list[k] : k \in 1..Len(final_list)}
       IN /\ xh' = [xh EXCEPT !.out = out,
                                !.enrich_calls = IF enrich_by_id THEN @ + 1 ELSE @]
          /\ runs' = Append(runs, [mp |-> max_passes, out |-> out])
          /\ IF enrich_by_id
             THEN \E ok \in SUBSET Ids, to_fetch \in IdLists(IdsOf(final_list)) :
                    LET e == EnrichDataRaw(final_list, ok, to_fetch)
                    IN /\ xresult' = e.rows
                       /\ xoutcome' = IF e.raised THEN "DataExtractionError" ELSE "returned"
             ELSE /\ xresult' = final_list
                  /\ xoutcome' = "returned"
    /\ UNCHANGED <<max_passes, enrich_by_id, up_rows, up_frozen, up_fixed, pass_i,
                   consolidated_data>>

\* extract_raw() is called again, on a fresh adapter with any max_passes,
\* against the same fixed upstream.
XRunAgain ==
    /\ ConsOnly
    /\ xpc = "done"
    /\ up_fixed
    /\ Len(runs) < MaxRuns
    /\ max_passes' \in 1..MaxPassesCap
    /\ xpc' = "pass"
    /\ pass_i' = 1
    /\ consolidated_data' = <<>>
    /\ xresult' = <<>>
    /\ xoutcome' = "none"
    /\ xh' = XHist0
    /\ UNCHANGED <<enrich_by_id, up_rows, up_frozen, up_fixed, runs>>

ConsNext ==
    \/ XPass
    \/ XFinish
    \/ XRunAgain

\* ==================================================================
\* APISourceAdapter._fetch_all_pages: pagination of one parameter combination
\* ==================================================================

\* params.get(size_param, 100), line 241, when the parameters carry no size.
DefaultPageSize == 100

\* Line 274: the number of consecutive empty pages that ends pagination.
EmptyPagesStop == 3

\* params[page_param] when the paging mode sets no page parameter.
NoPageParam == -1

PageSizes == 0..MaxPageSize
StartPages == {1, 2}
RowLimits == {0, 1, 3}

\* _get_first_page_params, lines 336-341: the page parameter.
FirstPage(mode, start) == IF mode = "page" THEN start ELSE NoPageParam

\* Lines 340 and 241: the page size of the run.
PageSize(mode, size) == IF mode = "page" THEN size ELSE DefaultPageSize

\* Mutation of NextPage: a page number is skipped.
NextPageSkips(mode, current) == IF mode = "page" THEN current + 2 ELSE NoPageParam

\* _get_next_page_params, lines 343-349: the next page parameter, NoPageParam
\* for None.
NextPage(mode, current) == IF mode = "page" THEN current + 1 ELSE NoPageParam

\* Line 246: range(1, max_pages + 1) has another page_num.
PagesLeft(n, max) == n <= max

\* Mutation of RowLimitReached: the row limit is ignored.
RowLimitNever(limit, n) == FALSE

\* Line 247: self.row_limit and len(all_rows) >= self.row_limit.
RowLimitReached(limit, n) == limit # 0 /\ n >= limit

\* Mutation of ShortPage: an empty page is not taken for a short one.
ShortPageNonEmpty(n, size) == 0 < n /\ n < size

\* Mutation of ShortPage: a full page ends pagination too.
ShortPageOrFull(n, size) == n <= size

\* Line 280: num_records < page_size.
ShortPage(n, size) == n < size

\* The records of the response to the page_num-th request.
PageData(pn, n) == [k \in 1..n |-> [pg |-> pn, k |-> k]]

\* Mutation of Extend: the page is put in front of the rows.
ExtendInFront(rows, page_data) == page_data \o rows

\* Line 269: all_rows.extend(page_data).
Extend(rows, page_data) == rows \o page_data

Min(a, b) == IF a <= b THEN a ELSE b
Max(a, b) == IF a >= b THEN a ELSE b

\* What a paged upstream holding total records answers to a request for page
\* p of the given size: the slice of its records, empty beyond the end. Without
\* paging parameters it answers with all its records.
Slice(total, mode, start, p, size) ==
    IF mode = "page"
    THEN IF p < start THEN 0 ELSE Min(size, Max(0, total - (p - start) * size))
    ELSE total

\* The answers the upstream may give to the request in flight: a number of
\* records, or "fail" (_make_request or response.json() raises).
\* Payloads _get_data_from_payload finds no record list in: the configured
\* data path is absent from the payload ("path_absent"), or what it leads to
\* is neither an object nor a list ("scalar").
UnrecognizedShapes == {"path_absent", "scalar"}

\* _get_data_from_payload, lines 351-378, by the number of records it returns
\* for a payload: the records of the list found, or the empty list (lines 366
\* and 378) for a payload of an unrecognized shape.
GetDataFromPayload(a) == IF a.kind \in UnrecognizedShapes THEN 0 ELSE a.n

Answers ==
    IF up_paged
    THEN {[kind |-> "rows", n |-> Slice(up_total, paging_mode, start_page, page_param, page_size)]}
    ELSE [kind : {"rows"}, n : 0..MaxPageSize]
         \cup {[kind |-> "fail", n |-> 0]}
         \cup [kind : UnrecognizedShapes, n : {0}]

FEv(e, p, n) == [e |-> e, page |-> p, n |-> n]

PageInit ==
    /\ paging_mode \in {"page", "none"}
    /\ paging_size \in (IF paging_mode = "page" THEN PageSizes ELSE {MaxPageSize})
    /\ start_page \in (IF paging_mode = "page" THEN StartPages ELSE {1})
    /\ max_pages \in 1..MaxPagesCap
    /\ row_limit \in RowLimits
    /\ has_delay \in BOOLEAN
    /\ up_paged \in BOOLEAN
    /\ up_total \in (IF up_paged THEN 0..MaxTotal ELSE {0})
    /\ fpc = "loop"
    /\ page_num = 1
    /\ page_param = FirstPage(paging_mode, start_page)
    /\ page_size = PageSize(paging_mode, paging_size)
    /\ all_rows = <<>>
    /\ consecutive_empty_pages = 0
    /\ foutcome = "none"
    /\ flog = <<>>
    /\ bad_shapes = 0

PageConfig == <<paging_mode, paging_size, start_page, max_pages, row_limit, has_delay,
                up_paged, up_total, page_size>>

\* Line 292: return all_rows.
PageReturn ==
    /\ fpc' = "done"
    /\ foutcome' = "returned"

\* Lines 246-254: the top of the loop. The loop ends when range() is exhausted
\* or the row limit is reached; otherwise the request for the page is sent.
PageRequest ==
    /\ PageOnly
    /\ fpc = "loop"
    /\ IF ~PagesLeft(page_num, max_pages) \/ RowLimitReached(row_limit, Len(all_rows))
       THEN /\ PageReturn
            /\ UNCHANGED flog
       ELSE /\ fpc' = "await"
            /\ flog' = Append(flog, FEv("req", page_param, 0))
            /\ UNCHANGED foutcome
    /\ UNCHANGED <<PageConfig, page_num, page_param, all_rows, consecutive_empty_pages,
                   bad_shapes>>

\* Lines 254-290: the response arrives and is processed.
PageResponse ==
    /\ PageOnly
    /\ fpc = "await"
    /\ \E a \in Answers :
        IF a.kind = "fail"
        THEN \* lines 256-259
             /\ fpc' = "done"
             /\ foutcome' = "DataExtractionError"
             /\ flog' = Append(flog, FEv("fail", page_param, 0))
             /\ UNCHANGED <<page_num, page_param, all_rows, consecutive_empty_pages,
                            bad_shapes>>
        ELSE LET num_records == GetDataFromPayload(a)
                 rows == Extend(all_rows, PageData(page_num, num_records))
                 empties == IF num_records = 0 THEN consecutive_empty_pages + 1 ELSE 0
                 next == NextPage(paging_mode, page_param)
                 log == Append(flog, FEv("resp", page_param, num_records))
             IN /\ all_rows' = rows
                /\ bad_shapes' = bad_shapes + (IF a.kind \in UnrecognizedShapes THEN 1 ELSE 0)
                /\ consecutive_empty_pages' = empties
                /\ IF \/ empties >= EmptyPagesStop
                      \/ ShortPage(num_records, page_size)
                      \/ next = NoPageParam
                   THEN /\ PageReturn
                        /\ flog' = log
                        /\ page_param' = (IF empties >= EmptyPagesStop \/ ShortPage(num_records, page_size)
                                          THEN page_param ELSE next)
                        /\ UNCHANGED page_num
                   ELSE /\ page_param' = next
                        /\ page_num' = page_num + 1
                        /\ fpc' = "loop"
                        /\ flog' = (IF has_delay THEN Append(log, FEv("delay", next, 0)) ELSE log)
                        /\ UNCHANGED foutcome
    /\ UNCHANGED PageConfig

PageNext ==
    \/ PageRequest
    \/ PageResponse

\* ==================================================================
\* APISourceAdapter._execute_full_pass: the parameter matrix
\* ==================================================================

MatrixKeys == {"k1", "k2"}
ParamValues == {1, 2}

\* The value lists a key may declare.
ValueLists == UNION {[1..n -> ParamValues] : n \in 0..MaxValues}

\* The matrices: distinct keys in declared order, each with its value list.
KeyOrders == {<<>>, <<"k1">>, <<"k2">>, <<"k1", "k2">>, <<"k2", "k1">>}
Matrices ==
    UNION {{<<ls, ks>> : ls \in [1..Len(ks) -> ValueLists]} : ks \in KeyOrders}

\* The base parameters: one of them shares a key with the matrix.
BaseParamSets == {[k \in D |-> 0] : D \in SUBSET {"k1", "q"}}

EmptyDict == [k \in {} |-> 0]

\* Mutation of Update: the base parameters win over the combination.
UpdateKeepsBase(params, combo) ==
    [k \in DOMAIN params \cup DOMAIN combo |->
        IF k \in DOMAIN params THEN params[k] ELSE combo[k]]

\* Lines 159-160: current_params = base_params.copy(); current_params.update(combo).
Update(params, combo) ==
    [k \in DOMAIN params \cup DOMAIN combo |->
        IF k \in DOMAIN combo THEN combo[k] ELSE params[k]]

\* [x + [y] for y in pool], for one x.
RECURSIVE WithEach(_, _)
WithEach(x, pool) ==
    IF pool = <<>> THEN <<>> ELSE <<Append(x, Head(pool))>> \o WithEach(x, Tail(pool))

\* itertools.product, one pool: [x + [y] for x in result for y in pool].
RECURSIVE ProductStep(_, _)
ProductStep(result, pool) ==
    IF result = <<>> THEN <<>>
    ELSE WithEach(Head(result), pool) \o ProductStep(Tail(result), pool)

\* itertools.product(*values): result = [[]], then one step per pool.
RECURSIVE Product(_, _)
Product(result, pools) ==
    IF pools = <<>> THEN result
    ELSE Product(ProductStep(result, Head(pools)), Tail(pools))

\* dict(zip(keys, v)).
ZipDict(keys, v) ==
    [k \in {keys[r] : r \in 1..Len(keys)} |->
        v[CHOOSE r \in 1..Len(keys) : keys[r] = k]]

\* Lines 149-155: the list of combinations.
ParamCombinations(matrix) ==
    IF matrix[2] # <<>>
    THEN LET tuples == Product(<< <<>> >>, matrix[1])
         IN [j \in 1..Len(tuples) |-> ZipDict(matrix[2], tuples[j])]
    ELSE <<EmptyDict>>

ExpInit ==
    /\ param_matrix \in Matrices
    /\ base_params \in BaseParamSets
    /\ epc = "start"
    /\ param_combinations = <<>>
    /\ combo_i = 1
    /\ all_rows_for_pass = <<>>
    /\ eoutcome = "none"
    /\ elog = <<>>

\* Lines 149-157.
ExpStart ==
    /\ ExpOnly
    /\ epc = "start"
    /\ param_combinations' = ParamCombinations(param_matrix)
    /\ epc' = "loop"
    /\ UNCHANGED <<param_matrix, base_params, combo_i, all_rows_for_pass, eoutcome, elog>>

\* Lines 158-166: one combination is paginated; _fetch_all_pages returns its
\* rows, or raises DataExtractionError, which ends the pass.
ExpCombo ==
    /\ ExpOnly
    /\ epc = "loop"
    /\ combo_i <= Len(param_combinations)
    /\ LET current_params == Update(base_params, param_combinations[combo_i])
       IN /\ elog' = Append(elog, current_params)
          /\ \E ok \in BOOLEAN :
                IF ok
                THEN /\ all_rows_for_pass' = all_rows_for_pass \o <<[combo |-> combo_i, k |-> 1]>>
                     /\ combo_i' = combo_i + 1
                     /\ UNCHANGED <<epc, eoutcome>>
                ELSE /\ epc' = "done"
                     /\ eoutcome' = "DataExtractionError"
                     /\ UNCHANGED <<all_rows_for_pass, combo_i>>
    /\ UNCHANGED <<param_matrix, base_params, param_combinations>>

\* Line 168.
ExpReturn ==
    /\ ExpOnly
    /\ epc = "loop"
    /\ combo_i > Len(param_combinations)
    /\ epc' = "done"
    /\ eoutcome' = "returned"
    /\ UNCHANGED <<param_matrix, base_params, param_combinations, combo_i,
                   all_rows_for_pass, elog>>

ExpNext ==
    \/ ExpStart
    \/ ExpCombo
    \/ ExpReturn

\* ==================================================================
\* APISourceAdapter._enrich_data_raw and _enrich_one_detail: enrichment
\* ==================================================================

\* None, as returned by _enrich_one_detail.
NoneRow == [id |-> NoId, v |-> -1]

\* A detail record that is the empty object {}.
EmptyRecord == [id |-> NoId, v |-> 0]

\* The first n identities, one raw row each.
IdRows(n) == [k \in 1..n |-> [id |-> k, v |-> 1]]

\* The raw rows handed to enrichment: n identities; a first row without
\* identity; an identity present twice; a later row without identity.
EnrRaws ==
    {IdRows(n) : n \in 0..MaxDetailIds}
        \cup {<<[id |-> NoId, v |-> 1], [id |-> 1, v |-> 1]>>,
              <<[id |-> 1, v |-> 1], [id |-> 1, v |-> 2]>>,
              <<[id |-> 1, v |-> 1], [id |-> NoId, v |-> 1]>>}

\* How one detail request may end: _make_request returns a payload with a
\* record ("ok"), with the empty object as record ("empty_record") or with no
\* record ("no_data"); or the call raises: AuthenticationError out of
\* _make_request ("auth_error"), or anything else ("exception": retries
\* exhausted, invalid JSON).
DetailOutcomes == {"ok", "empty_record", "no_data", "exception", "auth_error"}

\* Lines 296-304: what _enrich_one_detail returns.
DetailResult(how, id) ==
    CASE how = "ok" -> DetailRecord(id)
      [] how = "empty_record" -> EmptyRecord
      [] OTHER -> NoneRow

\* Mutation of Keep: every result is kept.
KeepAll(strategy, row) == TRUE

\* Line 322 (row is not None) and line 328 (if detail).
Keep(strategy, row) ==
    IF strategy = "concurrent" THEN row # NoneRow
    ELSE row # NoneRow /\ row # EmptyRecord

\* Mutation of NoneEnriched: the fallback is never taken.
NoneEnrichedNever(rows) == FALSE

\* Line 330: not enriched_rows.
NoneEnriched(rows) == rows = <<>>

\* The threads that may run _enrich_one_detail at once: the pool of line 320,
\* or the calling thread alone in the sequential strategy.
PoolSize(strategy, workers) == IF strategy = "concurrent" THEN workers ELSE 1

\* Mutation of SemFree: the semaphore never blocks.
SemFreeAlways(held, n) == TRUE

\* Line 295: the BoundedSemaphore has a permit left.
SemFree(held, n) == held < n

\* Mutation of IdsToFetch: one entry per raw row, without set().
IdsToFetchPerRow(raw) ==
    LET with_id == SelectSeq(raw, LAMBDA r : r.id # NoId)
    IN {[k \in 1..Len(with_id) |-> with_id[k].id]}

\* Line 311: ids_to_fetch = list(set(item['id'] for item in raw_data if 'id' in item)),
\* the lists it may be.
IdsToFetch(raw) == IdLists(IdsOf(raw))

Tasks == DOMAIN tstate
Running == {i \in Tasks : tstate[i] \in {"acquire", "fetch"}}
InFlight == {i \in Tasks : tstate[i] = "fetch"}

EnrInit ==
    /\ enrichment_strategy \in {"concurrent", "sequential"}
    /\ detail_workers \in (IF enrichment_strategy = "concurrent" THEN 1..MaxWorkers ELSE {1})
    /\ concurrent_requests \in 1..MaxPermits
    /\ raw_data \in EnrRaws
    /\ npc = "start"
    /\ ids_to_fetch = <<>>
    /\ tstate = <<>>
    /\ tresult = <<>>
    /\ toutcome = <<>>
    /\ fetches = <<>>
    /\ sem_held = 0
    /\ nresult = <<>>
    /\ noutcome = "none"

EnrConfig == <<enrichment_strategy, detail_workers, concurrent_requests, raw_data>>

\* Lines 308-319: the checks, the list of identities, the tasks.
EnrStart ==
    /\ EnrOnly
    /\ npc = "start"
    /\ IF raw_data = <<>> \/ raw_data[1].id = NoId
       THEN /\ npc' = "done"
            /\ noutcome' = "DataExtractionError"
            /\ UNCHANGED <<ids_to_fetch, tstate, tresult, toutcome, fetches, nresult>>
       ELSE \E ids \in IdsToFetch(raw_data) :
               /\ ids_to_fetch' = ids
               /\ npc' = "running"
               /\ tstate' = [i \in 1..Len(ids) |-> "queued"]
               /\ tresult' = [i \in 1..Len(ids) |-> NoneRow]
               /\ toutcome' = [i \in 1..Len(ids) |-> "none"]
               /\ fetches' = [i \in 1..Len(ids) |-> 0]
               /\ UNCHANGED <<nresult, noutcome>>
    /\ UNCHANGED <<EnrConfig, sem_held>>

\* A thread takes the next identity and enters _enrich_one_detail (line 321:
\* executor.map hands the identities out in order; line 327 in the loop).
DetailStart(i) ==
    /\ EnrOnly
    /\ npc = "running"
    /\ i \in Tasks
    /\ tstate[i] = "queued"
    /\ \A j \in 1..(i - 1) : tstate[j] # "queued"
    /\ Cardinality(Running) < PoolSize(enrichment_strategy, detail_workers)
    /\ tstate' = [tstate EXCEPT ![i] = "acquire"]
    /\ UNCHANGED <<EnrConfig, npc, ids_to_fetch, tresult, toutcome, fetches, sem_held,
                   nresult, noutcome>>

\* Lines 295-298: the permit is taken and the detail request sent.
DetailAcquire(i) ==
    /\ EnrOnly
    /\ i \in Tasks
    /\ tstate[i] = "acquire"
    /\ SemFree(sem_held, concurrent_requests)
    /\ sem_held' = sem_held + 1
    /\ tstate' = [tstate EXCEPT ![i] = "fetch"]
    /\ fetches' = [fetches EXCEPT ![i] = @ + 1]
    /\ UNCHANGED <<EnrConfig, npc, ids_to_fetch, tresult, toutcome, nresult, noutcome>>

\* Lines 298-304: the request ends, the permit is given back and the record,
\* or None, returned.
DetailDone(i) ==
    /\ EnrOnly
    /\ i \in Tasks
    /\ tstate[i] = "fetch"
    /\ \E how \in DetailOutcomes :
        /\ toutcome' = [toutcome EXCEPT ![i] = how]
        /\ tresult' = [tresult EXCEPT ![i] = DetailResult(how, ids_to_fetch[i])]
    /\ sem_held' = sem_held - 1
    /\ tstate' = [tstate EXCEPT ![i] = "done"]
    /\ UNCHANGED <<EnrConfig, npc, ids_to_fetch, fetches, nresult, noutcome>>

\* Lines 322 / 328 and 330-334: the results are gathered in the order of
\* ids_to_fetch once every task has ended.
EnrCollect ==
    /\ EnrOnly
    /\ npc = "running"
    /\ \A i \in Tasks : tstate[i] = "done"
    /\ LET enriched_rows == SelectSeq(tresult, LAMBDA row : Keep(enrichment_strategy, row))
       IN nresult' = IF ids_to_fetch = <<>> \/ NoneEnriched(enriched_rows)
                     THEN raw_data ELSE enriched_rows
    /\ npc' = "done"
    /\ noutcome' = "returned"
    /\ UNCHANGED <<EnrConfig, ids_to_fetch, tstate, tresult, toutcome, fetches, sem_held>>

EnrNext ==
    \/ EnrStart
    \/ \E i \in 1..(MaxDetailIds + 1) : DetailStart(i)
    \/ \E i \in 1..(MaxDetailIds + 1) : DetailAcquire(i)
    \/ \E i \in 1..(MaxDetailIds + 1) : DetailDone(i)
    \/ EnrCollect

\* ==================================================================
\* Concurrent enrichment: the worker pool, the semaphore and the lock
\* ==================================================================

\* Mutation of Release: the permit is not given back.
ReleaseNever(held) == held

\* Line 295: leaving `with self._enrich_semaphore` gives the permit back.
Release(held) == held - 1

\* Mutation of Unlock: the lock stays taken.
UnlockNever(l) == l

\* Line 32: leaving `with self.lock` frees the lock.
Unlock(l) == 0

\* The ways a call of _enrich_one_detail ends: with a response (line 302), by
\* an exception raised during an attempt (line 303), or by line 142 after the
\* last attempt failed (line 303 too).
Endings == {"success", "exception", "exhausted"}

Calls == 1..ids_n
OnWorker == {i \in Calls : wstate[i] \in {"acquire", "wait", "locked", "get"}}

\* Lines 95-97 and 319-321: the pool, the semaphore and the calls to make.
PoolInit ==
    /\ workers_n \in 1..MaxWorkers
    /\ permits_n \in 1..MaxPermits
    /\ limiter_period \in {0, PeriodSeconds(30)}
    /\ ids_n \in 0..MaxDetailIds
    /\ wstate = [i \in 1..ids_n |-> "queued"]
    /\ wtries = [i \in 1..ids_n |-> 0]
    /\ semaphore = 0
    /\ limiter_lock = 0
    /\ ended = {}
    /\ stage = "running"

PoolConfig == <<workers_n, permits_n, limiter_period, ids_n>>

\* Line 321: executor.map hands the identities out in order, each to a thread
\* of the pool that is free.
PoolSubmit(i) ==
    /\ PoolOnly
    /\ stage = "running"
    /\ i \in Calls
    /\ wstate[i] = "queued"
    /\ \A j \in 1..(i - 1) : wstate[j] # "queued"
    /\ Cardinality(OnWorker) < workers_n
    /\ wstate' = [wstate EXCEPT ![i] = "acquire"]
    /\ UNCHANGED <<PoolConfig, wtries, semaphore, limiter_lock, ended, stage>>

\* Lines 295-298: the permit is taken and _make_request called.
PoolAcquire(i) ==
    /\ PoolOnly
    /\ i \in Calls
    /\ wstate[i] = "acquire"
    /\ SemFree(semaphore, permits_n)
    /\ semaphore' = semaphore + 1
    /\ wstate' = [wstate EXCEPT ![i] = "wait"]
    /\ UNCHANGED <<PoolConfig, wtries, limiter_lock, ended, stage>>

\* Lines 128 and 29-32: rate_limiter.wait() returns at once without a period,
\* and otherwise enters `with self.lock`.
PoolWait(i) ==
    /\ PoolOnly
    /\ i \in Calls
    /\ wstate[i] = "wait"
    /\ IF limiter_period = 0
       THEN /\ wstate' = [wstate EXCEPT ![i] = "get"]
            /\ UNCHANGED limiter_lock
       ELSE /\ LockFree(limiter_lock)
            /\ limiter_lock' = i
            /\ wstate' = [wstate EXCEPT ![i] = "locked"]
    /\ UNCHANGED <<PoolConfig, wtries, semaphore, ended, stage>>

\* Lines 33-37 and 130: the sleep is over, the stamp written, the lock left
\* and the GET sent.
PoolStamp(i) ==
    /\ PoolOnly
    /\ i \in Calls
    /\ wstate[i] = "locked"
    /\ limiter_lock' = Unlock(limiter_lock)
    /\ wstate' = [wstate EXCEPT ![i] = "get"]
    /\ UNCHANGED <<PoolConfig, wtries, semaphore, ended, stage>>

\* Lines 127 and 138-141: the attempt raised a RequestException and the loop
\* has another attempt left.
PoolRetry(i) ==
    /\ PoolOnly
    /\ i \in Calls
    /\ wstate[i] = "get"
    /\ wtries[i] + 1 < MaxDetailTries
    /\ wtries' = [wtries EXCEPT ![i] = @ + 1]
    /\ wstate' = [wstate EXCEPT ![i] = "wait"]
    /\ UNCHANGED <<PoolConfig, semaphore, limiter_lock, ended, stage>>

\* Lines 137, 142 and 300-304: the call ends, with the record or with None,
\* and the permit is given back. The last attempt that fails ends the call by
\* line 142.
PoolEnd(i) ==
    /\ PoolOnly
    /\ i \in Calls
    /\ wstate[i] = "get"
    /\ \E how \in Endings :
        /\ how = "exhausted" => wtries[i] + 1 = MaxDetailTries
        /\ ended' = ended \cup {how}
    /\ semaphore' = Release(semaphore)
    /\ wstate' = [wstate EXCEPT ![i] = "done"]
    /\ wtries' = [wtries EXCEPT ![i] = 0]
    /\ UNCHANGED <<PoolConfig, limiter_lock, stage>>

\* Lines 319-322: the `with ThreadPoolExecutor` block is left once every call
\* has ended, and _enrich_data_raw goes on to return.
PoolExit ==
    /\ PoolOnly
    /\ stage = "running"
    /\ \A i \in Calls : wstate[i] = "done"
    /\ stage' = "returned"
    /\ UNCHANGED <<PoolConfig, wstate, wtries, semaphore, limiter_lock, ended>>

PoolNext ==
    \/ \E i \in 1..(MaxDetailIds + 1) : PoolSubmit(i)
    \/ \E i \in 1..(MaxDetailIds + 1) : PoolAcquire(i)
    \/ \E i \in 1..(MaxDetailIds + 1) : PoolWait(i)
    \/ \E i \in 1..(MaxDetailIds + 1) : PoolStamp(i)
    \/ \E i \in 1..(MaxDetailIds + 1) : PoolRetry(i)
    \/ \E i \in 1..(MaxDetailIds + 1) : PoolEnd(i)
    \/ PoolExit

\* ==================================================================
\* APISourceAdapter._get_data_from_payload, payload by payload
\* ==================================================================

\* Line 369: the wrapper keys, in the order they are probed.
WrapperKeys == <<"data", "items", "results", "content">>

\* A key that is no wrapper key, for data paths.
PathKey == "x"

\* What an object may hold under a wrapper key: nothing, a scalar, a list of
\* records or an object.
FieldKinds == {"absent", "scalar", "list", "object"}

Wrappers == {WrapperKeys[k] : k \in 1..Len(WrapperKeys)}
NoFields == [k \in Wrappers |-> "absent"]

\* JSON values, two levels deep. t: "scalar" (string, number, boolean, null),
\* "empty_list", "list" (of objects) or "object". w: for an object, what it
\* holds under each wrapper key; for a list, what its first element holds.
\* x: likewise, the value under PathKey, itself a value with fields w.
NoChild == [t |-> "absent", w |-> NoFields]
Flat(t) == [t |-> t, w |-> NoFields, x |-> NoChild]
Children ==
    {[t |-> t, w |-> NoFields] : t \in {"scalar", "empty_list"}}
    \cup [t : {"list", "object"},
          w : {NoFields, [NoFields EXCEPT !["data"] = "list", !["items"] = "list"]}]
Payloads ==
    {Flat(t) : t \in {"scalar", "empty_list"}}
    \cup [t : {"list", "object"}, w : [Wrappers -> FieldKinds], x : {NoChild} \cup Children]

\* The data paths tried: none, one key, a wrapper key, two keys.
DataPaths == {<<>>, <<PathKey>>, <<"data">>, <<PathKey, "items">>}

\* The walk left the payload: KeyError, TypeError or IndexError (line 364).
Missing == Flat("missing")

\* Lines 361-363, one key of the path: a list is replaced by its first element
\* ({} when it is empty), then data = data[key].
Descend(data, key) ==
    LET d == CASE data.t = "list" -> [data EXCEPT !.t = "object"]
               [] data.t = "empty_list" -> Flat("object")
               [] OTHER -> data
    IN IF d.t # "object" THEN Missing
       ELSE IF key = PathKey
            THEN (IF d.x.t = "absent" THEN Missing
                  ELSE [t |-> d.x.t, w |-> d.x.w, x |-> NoChild])
            ELSE (IF d.w[key] = "absent" THEN Missing ELSE Flat(d.w[key]))

\* Lines 359-366: the walk along the path.
RECURSIVE Walk(_, _)
Walk(data, path) ==
    IF path = <<>> \/ data.t = "missing" THEN data
    ELSE Walk(Descend(data, Head(path)), Tail(path))

\* Mutation of IsWrapped: the value under the key is returned whatever it is.
IsWrappedAnyType(data, key) == data.w[key] # "absent"

\* Line 370: key in data and isinstance(data[key], list).
IsWrapped(data, key) == data.w[key] = "list"

\* What _get_data_from_payload returns. how: "empty" ([], lines 366 and 378),
\* "value" (the value found at path at, lines 371 and 375) or "wrapped" (the
\* one-element list around it, line 372); is_list: the returned value is a list.
Rows(how, at, t) ==
    [how |-> how, at |-> at, is_list |-> how # "value" \/ t \in {"list", "empty_list"}]
NoRows == Rows("empty", <<>>, "empty_list")

\* _get_data_from_payload(payload, path), lines 357-378.
DataFromPayload(p, path) ==
    LET data == Walk(p, path)
        hits == {k \in 1..Len(WrapperKeys) : IsWrapped(data, WrapperKeys[k])}
        first == CHOOSE k \in hits : \A j \in hits : k <= j
    IN IF data.t = "missing" THEN NoRows
       ELSE IF data.t = "object"
            THEN (IF hits # {}
                  THEN Rows("value", Append(path, WrapperKeys[first]), data.w[WrapperKeys[first]])
                  ELSE Rows("wrapped", path, data.t))
       ELSE IF data.t \in {"list", "empty_list"} THEN Rows("value", path, data.t)
       ELSE NoRows

\* Line 263 of _fetch_all_pages: if not isinstance(page_data, list).
StopsOnNonList(rows) == ~rows.is_list

RowsInit ==
    /\ payload \in Payloads
    /\ data_path \in DataPaths
    /\ gpc = "call"
    /\ walked = Missing
    /\ extracted = NoRows

\* Line 261: page_data = self._get_data_from_payload(payload, self.data_path).
GetData ==
    /\ RowsOnly
    /\ gpc = "call"
    /\ gpc' = "done"
    /\ walked' = Walk(payload, data_path)
    /\ extracted' = DataFromPayload(payload, data_path)
    /\ UNCHANGED <<payload, data_path>>

RowsNext == GetData

RateNext ==
    \/ \E t \in Threads : WaitEnter(t)
    \/ \E t \in Threads : WaitAcquire(t)
    \/ \E t \in Threads : WaitCheck(t)
    \/ \E t \in Threads : WaitWake(t)
    \/ \E t \in Threads : WaitStamp(t)
    \/ \E t \in Threads : WaitRelease(t)
    \/ Tick

\* ==================================================================
\* Specifications
\* ==================================================================

\* The parts a specification does not drive stay as constructed.
RateIdle == RateInit /\ period_seconds = 0
TokIdle == TokInit /\ cache = FileAbsent
OneIdle == OneInit
PoolIdle == PoolInit /\ workers_n = 1 /\ permits_n = 1 /\ limiter_period = 0 /\ ids_n = 0
ChanIdle == ChanInit /\ requests_per_minute = 0 /\ enrichment_requests_per_minute = 0
RowsIdle == payload = Flat("empty_list") /\ data_path = <<>> /\ RowsInit
ReqIdle == ReqInit /\ max_retries = 0 /\ ~has_oauth /\ endpoint.status = 400
ConsIdle == ConsInit /\ max_passes = 1 /\ ~enrich_by_id /\ ~up_frozen
PageIdle ==
    /\ PageInit
    /\ paging_mode = "none"
    /\ max_pages = 1
    /\ row_limit = 0
    /\ ~has_delay
    /\ ~up_paged
ExpIdle == ExpInit /\ param_matrix = <<<<>>, <<>>>> /\ base_params = EmptyDict
EnrIdle ==
    /\ EnrInit
    /\ enrichment_strategy = "sequential"
    /\ concurrent_requests = 1
    /\ raw_data = <<>>

InitRate == RateInit /\ TokIdle /\ ReqIdle /\ ConsIdle /\ PageIdle /\ ExpIdle /\ EnrIdle /\ OneIdle /\ RowsIdle
    /\ ChanIdle /\ PoolIdle
SpecRate == InitRate /\ [][RateNext]_vars

InitTok == TokInit /\ RateIdle /\ ReqIdle /\ ConsIdle /\ PageIdle /\ ExpIdle /\ EnrIdle /\ OneIdle /\ RowsIdle
    /\ ChanIdle /\ PoolIdle
SpecTok == InitTok /\ [][TokNext]_vars

InitOne ==
    /\ TokInit /\ OneInit
    /\ RateIdle /\ ReqIdle /\ ConsIdle /\ PageIdle /\ ExpIdle /\ EnrIdle
    /\ RowsIdle /\ ChanIdle /\ PoolIdle
SpecOne == InitOne /\ [][OneNext]_vars

InitChan ==
    /\ ChanInit
    /\ RateIdle /\ TokIdle /\ OneIdle /\ ReqIdle /\ ConsIdle /\ PageIdle /\ ExpIdle /\ EnrIdle
    /\ RowsIdle /\ PoolIdle
SpecChan == InitChan /\ [][ChanNext]_vars

InitPool ==
    /\ PoolInit
    /\ RateIdle /\ TokIdle /\ OneIdle /\ ReqIdle /\ ConsIdle /\ PageIdle /\ ExpIdle /\ EnrIdle
    /\ RowsIdle /\ ChanIdle
SpecPool == InitPool /\ [][PoolNext]_vars

\* The threads of the pool are scheduled: while some thread of the enrichment
\* can take a step, one of them eventually does. No thread is promised the
\* semaphore or the lock ahead of another.
SpecPoolFair == SpecPool /\ WF_vars(PoolNext)

InitRows ==
    /\ RateIdle /\ TokIdle /\ OneIdle /\ ReqIdle /\ ConsIdle /\ PageIdle /\ ExpIdle /\ EnrIdle
    /\ ChanIdle /\ PoolIdle
    /\ RowsInit
SpecRows == InitRows /\ [][RowsNext]_vars

\* A request without OAuth2 uses neither the token cache nor the endpoint.
InitReq ==
    /\ RateInit /\ period_seconds \in {0, PeriodSeconds(30)}
    /\ TokInit
    /\ ReqInit
    /\ OneIdle
    /\ ChanIdle /\ PoolIdle
    /\ RowsIdle
    /\ (~has_oauth => (cache = FileAbsent /\ endpoint.status = 400))
    /\ ConsIdle
    /\ PageIdle
    /\ ExpIdle
    /\ EnrIdle
SpecReq == InitReq /\ [][ReqNext]_vars

InitCons == ConsInit /\ RateIdle /\ TokIdle /\ ReqIdle /\ PageIdle /\ ExpIdle /\ EnrIdle /\ OneIdle /\ RowsIdle
    /\ ChanIdle /\ PoolIdle
SpecCons == InitCons /\ [][ConsNext]_vars

InitPage == PageInit /\ RateIdle /\ TokIdle /\ ReqIdle /\ ConsIdle /\ ExpIdle /\ EnrIdle /\ OneIdle /\ RowsIdle
    /\ ChanIdle /\ PoolIdle
SpecPage == InitPage /\ [][PageNext]_vars

InitExp == ExpInit /\ RateIdle /\ TokIdle /\ ReqIdle /\ ConsIdle /\ PageIdle /\ EnrIdle /\ OneIdle /\ RowsIdle
    /\ ChanIdle /\ PoolIdle
SpecExp == InitExp /\ [][ExpNext]_vars

InitEnr == EnrInit /\ RateIdle /\ TokIdle /\ ReqIdle /\ ConsIdle /\ PageIdle /\ ExpIdle /\ OneIdle /\ RowsIdle
    /\ ChanIdle /\ PoolIdle
SpecEnr == InitEnr /\ [][EnrNext]_vars

\* ------------------------------------------------------------------
\* C1. Rate governor invariant: on a channel with requests_per_minute > 0 and
\* any number of concurrent callers of wait(), the instants at which two
\* consecutive requests are permitted (the stamps wait() writes to
\* last_request_time just before returning) are at least period_seconds apart.
\* ------------------------------------------------------------------
C1_RateSpacing ==
    period_seconds > 0 =>
        \A k \in 1..(Len(permits) - 1) :
            permits[k + 1].at - permits[k].at >= period_seconds

\* Two different callers were permitted one after the other, the second one
\* after sleeping out the remainder of the period, while a third call contends.
C1_Witness ==
    /\ period_seconds > 0
    /\ Len(permits) >= 2
    /\ permits[1].t # permits[2].t
    /\ permits[2].at - permits[1].at = period_seconds

\* Every caller of OAuth2Client is between calls.
TokQuiet == \A t \in Threads : tpc[t] = "idle"

\* ------------------------------------------------------------------
\* C2. Token refresh safety: when two or more callers invoke
\* ensure_access_token() while the stored token is expired and a refresh
\* token is stored, exactly one refresh request is sent to the token endpoint
\* in total. (Stated for runs made only of ensure_access_token() calls, every
\* caller having called, none having failed, every issued lifetime longer than
\* the buffer and the clock not having jumped.)
\* ------------------------------------------------------------------
C2_SingleRefresh ==
    ( /\ tokHist.initExpired
      /\ tokHist.kinds = {"ensure"}
      /\ \A t \in Threads : top[t] = "ensure"
      /\ TokQuiet
      /\ ~tokHist.raised
      /\ ~tokHist.short
      /\ wallTicks = 0 )
    => refreshPosts = 1

\* ------------------------------------------------------------------
\* C3. Refresh-token preservation: once the persisted record holds a refresh
\* token, after any sequence and interleaving of successful exchange_code()
\* and refresh() calls the persisted record still holds a refresh token.
\* (Stated for a record that held one before the first call began, and for
\* runs in which no two overlapping writers garbled the file.)
\* ------------------------------------------------------------------
C3_RefreshTokenKept ==
    ( /\ tokHist.initRT
      /\ tokHist.kinds \subseteq {"exchange", "refresh"}
      /\ ~tokHist.raised
      /\ ~tokHist.garbled
      /\ TokQuiet )
    => (cache.state = "json" /\ cache.rt # 0)

\* ------------------------------------------------------------------
\* Reading the history of a _make_request call
\* ------------------------------------------------------------------
IsGet(e) == e.ev = "get"
IsWait(e) == e.ev = "wait"
IsSleep(e) == e.ev = "sleep"
IsForcedRefresh(e) == e.ev = "refresh"
IsEnsureRefresh(e) == e.ev = "ensure_refresh"

Gets == SelectSeq(qlog, IsGet)
NumAttempts == Len(SelectSeq(qlog, IsWait))
NumSleeps == Len(SelectSeq(qlog, IsSleep))
NumForcedRefreshes == Len(SelectSeq(qlog, IsForcedRefresh))
NumEnsureRefreshes == Len(SelectSeq(qlog, IsEnsureRefresh))

\* A failure the spec calls retryable: a network-level one or a listed status.
RetryableFailure(status) == status = 0 \/ status \in retryable_status_codes

\* A 4xx status outside the retryable ones.
NonRetryable4xx(status) == status >= 400 /\ status <= 499 /\ status \notin retryable_status_codes

\* ------------------------------------------------------------------
\* C4. 401 recovery: under OAuth2, when the first GET of a call answers 401,
\* the refresh succeeds and the re-issued GET answers 2xx, _make_request
\* forces refresh() exactly once, returns that response without raising and
\* takes no backoff sleep; two GETs were sent. When moreover the stored token
\* was fresh and the new lifetime exceeds the buffer, that forced refresh is
\* the only refresh request sent to the token endpoint.
\* ------------------------------------------------------------------
C4_401Recovery ==
    ( /\ has_oauth
      /\ Len(Gets) >= 2
      /\ Gets[1].arg = 401
      /\ Gets[2].arg = 200 )
    => /\ outcome = "returned"
       /\ NumForcedRefreshes = 1
       /\ NumSleeps = 0
       /\ Len(Gets) = 2
       /\ NumAttempts = 1
       /\ (NumEnsureRefreshes = 0 => refreshPosts = 1)

\* The call answered 401, refreshed, then 200, and has returned.
C4_Witness ==
    /\ has_oauth
    /\ outcome = "returned"
    /\ Len(Gets) = 2
    /\ Gets[1].arg = 401
    /\ Gets[2].arg = 200
    /\ NumForcedRefreshes = 1
    /\ refreshPosts = 1

\* ------------------------------------------------------------------
\* C5. Within one _make_request call under OAuth2 a 401 forces refresh() once
\* and the request is re-issued once; if the upstream keeps answering 401 the
\* remaining attempts force no further refresh: at most one forced refresh
\* per call.
\* ------------------------------------------------------------------
C5_OneForcedRefresh == NumForcedRefreshes <= 1

\* ------------------------------------------------------------------
\* C6. A response with a non-retryable 4xx status (a 4xx outside
\* retryable_status_codes; under OAuth2 the first 401 of an attempt is the
\* forced-refresh case of C5) aborts the call at once: no backoff sleep and
\* no further GET follows it.
\* ------------------------------------------------------------------
C6_NoRetryOn4xx ==
    \A k \in 1..Len(qlog) :
        ( /\ IsGet(qlog[k])
          /\ NonRetryable4xx(qlog[k].arg)
          /\ ~(has_oauth /\ qlog[k].arg = 401) )
        => \A j \in (k + 1)..Len(qlog) : ~IsSleep(qlog[j]) /\ ~IsGet(qlog[j])

\* ------------------------------------------------------------------
\* C7. No call makes more than max_retries attempts. A call in which every
\* attempt failed with a retryable failure has made exactly max_retries
\* attempts, each with one GET, and ended with DataExtractionError, never with
\* a response; and the cause of a DataExtractionError is the failure of the
\* last attempt.
\* ------------------------------------------------------------------
C7_RetriesExhausted ==
    /\ att <= max_retries
    /\ NumAttempts <= max_retries
    /\ ( /\ qpc = "done"
         /\ outcome # "AuthenticationError"
         /\ \A k \in 1..Len(Gets) : RetryableFailure(Gets[k].arg) )
       => /\ outcome = "DataExtractionError"
          /\ NumAttempts = max_retries
          /\ Len(Gets) = max_retries
    /\ outcome = "DataExtractionError"
       => /\ NumAttempts = max_retries
          /\ last_exc = (IF Len(Gets) = 0 THEN NoException ELSE Gets[Len(Gets)].arg)

\* Three attempts failed with 429, a network failure and 503, and the call
\* raised DataExtractionError from the 503.
C7_Witness ==
    /\ outcome = "DataExtractionError"
    /\ max_retries = 3
    /\ Len(Gets) = 3
    /\ Gets[1].arg = 429 /\ Gets[2].arg = 0 /\ Gets[3].arg = 503
    /\ last_exc = 503

\* ------------------------------------------------------------------
\* C8. Backoff policy: after the failed attempt number k (k = 0, 1, ...) the
\* call sleeps backoff_base * 2^k, except that after a 429 response carrying
\* a Retry-After header the sleep equals the Retry-After value.
\* ------------------------------------------------------------------
C8_BackoffPolicy ==
    \A j \in 1..Len(qlog) :
        IsSleep(qlog[j]) =>
            LET k == Len(SelectSeq(SubSeq(qlog, 1, j - 1), IsSleep))
                g == qlog[j - 1]
            IN qlog[j].arg = (IF g.arg = 429 /\ g.ra > 0 THEN g.ra ELSE backoff_base * Pow2(k))


\* ------------------------------------------------------------------
\* extract_raw: consolidation
\* ------------------------------------------------------------------

\* Every pass executed so far returned its rows (none raised).
NoPassRaised == xh.failed_at = 0

\* A pass after the first, before the last one allowed, added no identity.
StablePassBeforeLast == xh.zero_at # 0 /\ xh.zero_at < max_passes

\* C9, as stated: with max_passes > 1, consolidation executes at most
\* max_passes full passes; it executes fewer exactly when some pass after the
\* first leaves the number of distinct identities unchanged; and a pass that
\* adds an identity never ends it early. (Stated for runs no pass of which
\* raised.)
C9_StopsEarlyOnlyOnStablePass ==
    (xpc = "done" /\ max_passes > 1 /\ NoPassRaised) =>
        /\ xh.passes <= max_passes
        /\ (xh.passes < max_passes) <=> StablePassBeforeLast
        /\ (xh.last_new > 0 => xh.passes = max_passes)

\* C9, amended: with max_passes > 1, consolidation executes at most max_passes
\* full passes; it executes fewer exactly when the first pass returns no row
\* (extract_raw then returns the empty list after that single pass) or some
\* pass after the first leaves the number of distinct identities unchanged;
\* and a pass that adds an identity never ends it early. This holds for every
\* upstream, eventually constant or not, in runs no pass of which raised.
C9_ConvergenceTermination ==
    (xpc = "done" /\ max_passes > 1 /\ NoPassRaised) =>
        /\ xh.passes <= max_passes
        /\ (xh.passes < max_passes) <=> (xh.first_empty \/ StablePassBeforeLast)
        /\ (xh.last_new > 0 => xh.passes = max_passes)
        /\ (xh.first_empty => (xh.passes = 1 /\ xresult = <<>> /\ xoutcome = "returned"))

\* An upstream that has become constant, with identities, is declared stable
\* at the second of three passes.
C9_Witness ==
    /\ xpc = "done"
    /\ max_passes = 3
    /\ up_frozen
    /\ IdsOf(up_rows) # {}
    /\ xh.passes = 2
    /\ xh.zero_at = 2
    /\ ~xh.first_empty
    /\ xh.cooldowns = 1

\* The record fetched last for each identity of one pass.
LastSeen(rows) ==
    {rows[k] : k \in {n \in 1..Len(rows) :
                        \A j \in (n + 1)..Len(rows) : rows[j].id # rows[n].id}}

\* C10, as stated: against an upstream that returns the same fixed dataset on
\* every pass, every run of consolidation yields the same set of records,
\* whatever max_passes >= 1 each run uses.
C10_SameSetAnyMaxPasses ==
    up_fixed => \A a, b \in 1..Len(runs) : runs[a].out = runs[b].out

\* C10, amended: against an upstream that returns on every pass the same fixed
\* dataset in which every record carries the identity field, every run of
\* consolidation yields the same set of records, whatever max_passes >= 1 each
\* run uses: the record fetched last for each identity.
C10_Idempotence ==
    (up_fixed /\ ~HasIdless(up_rows)) =>
        /\ \A a, b \in 1..Len(runs) : runs[a].out = runs[b].out
        /\ \A a \in 1..Len(runs) : runs[a].out = LastSeen(up_rows)

\* A fixed dataset with two versions of one identity was consolidated once
\* with max_passes = 1 and once with max_passes > 1.
C10_Witness ==
    /\ up_fixed
    /\ Len(up_rows) = 2
    /\ up_rows[1].id = up_rows[2].id
    /\ up_rows[1] # up_rows[2]
    /\ ~HasIdless(up_rows)
    /\ Len(runs) = 2
    /\ runs[1].mp = 1
    /\ runs[2].mp > 1


\* C11: with max_passes > 1 the consolidated result holds each identity at
\* most once and its identities are exactly those returned by the executed
\* passes; it is what extract_raw returns when no enrichment is configured;
\* and when max_passes = 3 and pass 2 returns the identities of pass 1 (in any
\* order) consolidation stops after pass 2. (Runs no pass of which raised.)
C11_UnionNoDuplicates ==
    (xpc = "done" /\ max_passes > 1 /\ NoPassRaised) =>
        /\ \A j, k \in 1..Len(consolidated_data) :
                consolidated_data[j].id = consolidated_data[k].id => j = k
        /\ IdsOf(consolidated_data) = xh.seen
        /\ (~enrich_by_id /\ ~xh.first_empty) => xresult = consolidated_data
        /\ (max_passes = 3 /\ xh.same12) => xh.passes = 2

\* Pass 2 returned the two identities of pass 1 in the opposite order, with
\* max_passes = 3, and consolidation has ended.
C11_Witness ==
    /\ xpc = "done"
    /\ max_passes = 3
    /\ xh.first_ids = <<1, 2>>
    /\ xh.reordered12
    /\ xh.passes = 2
    /\ Len(consolidated_data) = 2

\* C12: with max_passes = 1, extract_raw executes exactly one full pass, takes
\* no cool-down sleep and never evaluates the stabilization test, whatever the
\* upstream returns.
C12_FastPath ==
    (xpc = "done" /\ max_passes = 1) =>
        /\ xh.passes = 1
        /\ xh.cooldowns = 0
        /\ xh.compared = 0

\* A single-pass run over a pass with rows has ended through lines 209-213.
C12_Witness ==
    /\ xpc = "done"
    /\ max_passes = 1
    /\ xh.passes = 1
    /\ ~xh.raw_return
    /\ Len(consolidated_data) = 2


\* ------------------------------------------------------------------
\* _fetch_all_pages: pagination
\* ------------------------------------------------------------------

PageReqs == SelectSeq(flog, LAMBDA e : e.e = "req")

\* A row limit is set and n rows reach it.
LimitHit(n) == row_limit # 0 /\ n >= row_limit
PageResps == SelectSeq(flog, LAMBDA e : e.e = "resp")

\* The records received in the responses of a history.
RECURSIVE RowsIn(_)
RowsIn(log) ==
    IF log = <<>> THEN 0
    ELSE (IF Head(log).e = "resp" THEN Head(log).n ELSE 0) + RowsIn(Tail(log))

\* The short-page rule over the pages received so far: a page of exactly
\* page_size - 1 records is the last one requested; a page of exactly page_size
\* records, when max_pages and the row limit allow another page, is followed by
\* the request for the next page number.
ShortPageRule ==
    \A j \in 1..Len(PageResps) :
        /\ PageResps[j].n = page_size - 1 => (fpc = "done" /\ Len(PageReqs) = j)
        /\ (/\ PageResps[j].n = page_size
            /\ fpc = "done"
            /\ j < max_pages
            /\ ~LimitHit(RowsIn(SubSeq(PageResps, 1, j))))
           => (Len(PageReqs) > j /\ PageReqs[j + 1].page = PageResps[j].page + 1)

\* C13, as stated: in page mode the short-page rule holds.
C13_ShortPageRuleAnySize == paging_mode = "page" => ShortPageRule

\* C13, amended: in page mode with a page size of at least 1 the short-page
\* rule holds. (With page size 0 every page is a full page of 0 records, and
\* the third one ends pagination through the empty-page counter.)
C13_ShortPageRule ==
    (paging_mode = "page" /\ page_size >= 1) => ShortPageRule

\* A full page was followed by the next page, which was short by one record
\* and ended pagination.
C13_Witness ==
    /\ paging_mode = "page"
    /\ page_size = 2
    /\ fpc = "done"
    /\ Len(PageResps) = 2
    /\ PageResps[1].n = 2
    /\ PageResps[2].n = 1
    /\ PageReqs[2].page = start_page + 1

\* What a run over all the pages of a paged upstream must return: its records
\* in order, page by page.
AllPagesInOrder ==
    [r \in 1..up_total |-> [pg |-> ((r - 1) \div page_size) + 1, k |-> ((r - 1) % page_size) + 1]]

\* The pages of a paged upstream up to and including the short one.
PagesServed == (up_total \div page_size) + 1

FetchedAllPages ==
    /\ foutcome = "returned"
    /\ all_rows = AllPagesInOrder
    /\ Len(PageReqs) = PagesServed
    /\ Len(PageResps) = PagesServed

\* C14, as stated: from an upstream that serves full pages followed by one
\* short page, without failures, _fetch_all_pages returns the concatenation of
\* all the pages in order with exactly one request per page up to and
\* including the short page, and none after it.
C14_AllPagesFetched ==
    (fpc = "done" /\ up_paged /\ paging_mode = "page" /\ page_size >= 1) => FetchedAllPages

\* C14, amended: the same, provided API_MAX_PAGES is at least the number of
\* pages served and the row limit, if set, is not reached by the full pages.
C14_AllPagesFetchedWithinLimits ==
    (/\ fpc = "done" /\ up_paged /\ paging_mode = "page" /\ page_size >= 1
     /\ max_pages >= PagesServed
     /\ ~LimitHit((up_total \div page_size) * page_size))
    => FetchedAllPages

\* Two full pages and a short one (2/2/1) were fetched with three requests.
C14_Witness ==
    /\ fpc = "done"
    /\ up_paged
    /\ paging_mode = "page"
    /\ page_size = 2
    /\ up_total = 5
    /\ Len(all_rows) = 5
    /\ Len(PageReqs) = 3
    /\ foutcome = "returned"

\* C15: at most max_pages pages are requested, and with a row limit set no
\* page is requested once the rows accumulated have reached it, whatever the
\* upstream answers.
C15_PaginationBound ==
    /\ Len(PageReqs) <= max_pages
    /\ \A j \in 1..Len(flog) :
          flog[j].e = "req" => ~LimitHit(RowsIn(SubSeq(flog, 1, j - 1)))

\* A full page reached the row limit and pagination ended without another
\* request, although pages were left.
C15_Witness ==
    /\ fpc = "done"
    /\ paging_mode = "page"
    /\ row_limit = 1
    /\ max_pages >= 2
    /\ page_size = 2
    /\ Len(PageReqs) = 1
    /\ Len(PageResps) = 1
    /\ PageResps[1].n = 2

\* C16: requests and responses alternate, each request being sent after the
\* response to the previous one has been processed; in page mode the j-th
\* request asks for page start_page + j - 1.
C16_SequentialPages ==
    /\ \A j \in 1..Len(flog) :
          flog[j].e = "req" =>
            /\ (j > 1 => (flog[j - 1].e = "resp" \/
                          (flog[j - 1].e = "delay" /\ j > 2 /\ flog[j - 2].e = "resp")))
            /\ (j < Len(flog) => flog[j + 1].e \in {"resp", "fail"})
            /\ (j = Len(flog) => fpc = "await")
    /\ paging_mode = "page" =>
          \A j \in 1..Len(PageReqs) : PageReqs[j].page = start_page + j - 1

\* Three pages were requested in a row, starting at page 2.
C16_Witness ==
    /\ paging_mode = "page"
    /\ start_page = 2
    /\ Len(PageReqs) = 3
    /\ PageReqs[3].page = 4
    /\ fpc = "done"


\* ------------------------------------------------------------------
\* _execute_full_pass: parameter combinations
\* ------------------------------------------------------------------

MatrixLists == param_matrix[1]
MatrixKeyOrder == param_matrix[2]

\* The product of the lengths of the value lists from key r on.
RECURSIVE LengthsFrom(_)
LengthsFrom(r) ==
    IF r > Len(MatrixLists) THEN 1 ELSE Len(MatrixLists[r]) * LengthsFrom(r + 1)

\* The j-th combination when the first declared key varies slowest and the
\* values are taken in list order.
NthCombination(j) ==
    [k \in {MatrixKeyOrder[r] : r \in 1..Len(MatrixKeyOrder)} |->
        LET r == CHOOSE q \in 1..Len(MatrixKeyOrder) : MatrixKeyOrder[q] = k
        IN MatrixLists[r][(((j - 1) \div LengthsFrom(r + 1)) % Len(MatrixLists[r])) + 1]]

\* C17: a pass that returns has paginated exactly m1 * ... * mn combinations,
\* the j-th being the base parameters overlaid by the j-th combination in the
\* order where the first declared key varies slowest; with no matrix it has
\* paginated the base parameters, once.
C17_ParameterExpansion ==
    (epc = "done" /\ eoutcome = "returned") =>
        IF MatrixKeyOrder = <<>>
        THEN elog = <<base_params>>
        ELSE /\ Len(elog) = LengthsFrom(1)
             /\ \A j \in 1..Len(elog) :
                   /\ \A k \in DOMAIN NthCombination(j) : elog[j][k] = NthCombination(j)[k]
                   /\ \A k \in DOMAIN base_params \ DOMAIN NthCombination(j) :
                         elog[j][k] = base_params[k]
                   /\ DOMAIN elog[j] = DOMAIN base_params \cup DOMAIN NthCombination(j)

\* A pass over a 2 x 2 matrix whose first key is also a base parameter has
\* returned.
C17_Witness ==
    /\ epc = "done"
    /\ eoutcome = "returned"
    /\ MatrixKeyOrder = <<"k1", "k2">>
    /\ MatrixLists = <<<<1, 2>>, <<2, 1>>>>
    /\ "k1" \in DOMAIN base_params
    /\ Len(elog) = 4
    /\ Len(all_rows_for_pass) = 4


\* ------------------------------------------------------------------
\* _enrich_data_raw: enrichment
\* ------------------------------------------------------------------

ResultRows == {nresult[k] : k \in 1..Len(nresult)}

\* The detail request of task i ended without a record.
DetailFailed(i) == toutcome[i] \in {"no_data", "exception", "auth_error"}

\* C18: in both strategies, once enrichment has run, the batch has not raised
\* and every identity was fetched, once, whatever happened to the others; when
\* some identity was enriched, none of the identities whose fetch failed is in
\* the output, no None is, and every identity whose fetch returned its detail
\* record is. (The empty object as a detail record is the subject of C19.)
C18_FailureIsolation ==
    (npc = "done" /\ ids_to_fetch # <<>>) =>
        /\ noutcome = "returned"
        /\ \A i \in Tasks : fetches[i] = 1
        /\ (\E j \in Tasks : toutcome[j] = "ok") =>
              /\ NoneRow \notin ResultRows
              /\ \A i \in Tasks :
                    /\ DetailFailed(i) => \A r \in ResultRows : r.id # ids_to_fetch[i]
                    /\ toutcome[i] = "ok" => DetailRecord(ids_to_fetch[i]) \in ResultRows

\* Of three identities the first raised, the second had no data and the third
\* was enriched, in the concurrent strategy.
C18_Witness ==
    /\ npc = "done"
    /\ enrichment_strategy = "concurrent"
    /\ toutcome = <<"exception", "no_data", "ok">>
    /\ nresult = <<DetailRecord(3)>>

\* The tasks whose detail request returned a record.
DetailSucceeded == {i \in Tasks : toutcome[i] \in {"ok", "empty_record"}}

\* C19: once enrichment has run, if the detail fetch failed for every identity
\* the result is the original rows, unchanged; if it succeeded for some, the
\* result is the detail records fetched, and only them.
C19_Fallback ==
    (npc = "done" /\ ids_to_fetch # <<>>) =>
        IF DetailSucceeded = {}
        THEN nresult = raw_data
        ELSE nresult = SelectSeq(tresult, LAMBDA row : row # NoneRow)

\* C20: at every moment of an enrichment the calls of _enrich_one_detail in
\* progress are at most the pool size (one in the sequential strategy), and
\* the detail requests in flight, each holding a permit, at most the permits
\* of the semaphore.
C20_TwoLayerBound ==
    /\ Cardinality(Running) <= PoolSize(enrichment_strategy, detail_workers)
    /\ Cardinality(Running) <= detail_workers
    /\ Cardinality(InFlight) <= concurrent_requests
    /\ sem_held = Cardinality(InFlight)

\* Two workers are in _enrich_one_detail, one holding the only permit and the
\* other waiting for it, while a third identity is queued.
C20_Witness ==
    /\ enrichment_strategy = "concurrent"
    /\ detail_workers = 2
    /\ concurrent_requests = 1
    /\ tstate = <<"fetch", "acquire", "queued">>


\* ------------------------------------------------------------------
\* _make_request: authentication errors
\* ------------------------------------------------------------------

\* C22: an AuthenticationError raised by _get_headers() or by the forced
\* refresh ends the call at once: nothing follows it in the call (no backoff
\* sleep, no GET, no further attempt) and the call raises AuthenticationError,
\* not the DataExtractionError of exhausted retries.
C22_AuthErrorEndsCall ==
    \A j \in 1..Len(qlog) :
        qlog[j].ev = "raise" =>
            /\ j = Len(qlog)
            /\ qpc = "done"
            /\ outcome = "AuthenticationError"

\* A 401 forced a refresh which the token endpoint rejected, in the first of
\* three attempts allowed.
C22_Witness ==
    /\ qpc = "done"
    /\ outcome = "AuthenticationError"
    /\ max_retries = 3
    /\ att = 0
    /\ Len(qlog) >= 3
    /\ qlog[Len(qlog) - 1].ev = "refresh"
    /\ qlog[Len(qlog)].ev = "raise"
    /\ NumSleeps = 0


\* ------------------------------------------------------------------
\* Authentication failures during extraction
\* ------------------------------------------------------------------

\* C21: an authentication failure while fetching a detail record is fatal:
\* the enrichment stage, and with it the extraction, raises instead of
\* returning a record set.
C21_AuthFailureFatal ==
    (npc = "done" /\ \E i \in Tasks : toutcome[i] = "auth_error") =>
        noutcome # "returned"


\* ------------------------------------------------------------------
\* OAuth2Client, call by call
\* ------------------------------------------------------------------

\* The record a call found in the cache file; none when the file is missing
\* or unreadable.
Stored(c) == c.before

HasRecord(c) == c.before.state = "json"

\* now < expires_at - buffer for the record the call found.
Fresh(c) == c.now < c.before.exp - expiry_buffer

\* C23: ensure_access_token() on a fresh record returns the stored access
\* token and sends no request; on an expired record with a refresh token it
\* sends one refresh and, if it returns, returns the access token that refresh
\* obtained, never the stored one; on an expired record without refresh token,
\* or without any record, it raises AuthenticationError and sends no request.
C23_EnsureAccessToken ==
    \A j \in 1..Len(seqlog) :
        LET c == seqlog[j] IN
        c.op = "ensure_access_token" =>
            /\ (HasRecord(c) /\ Fresh(c)) =>
                  (~c.raised /\ c.at = Stored(c).at /\ c.posts = 0 /\ c.after = c.before)
            /\ (HasRecord(c) /\ ~Fresh(c) /\ Stored(c).rt # 0) =>
                  /\ c.posts = 1
                  /\ ~c.raised <=> c.status = 200
                  /\ ~c.raised => (c.at # Stored(c).at /\ c.at = c.after.at)
            /\ (~HasRecord(c) \/ (~Fresh(c) /\ Stored(c).rt = 0)) =>
                  (c.raised /\ c.posts = 0)

\* The three cases in one run: a refresh that stored a token living shorter
\* than the buffer, so that the next ensure_access_token() refreshed again.
C23_Witness ==
    /\ Len(seqlog) = 2
    /\ seqlog[1].op = "refresh" /\ ~seqlog[1].raised
    /\ seqlog[2].op = "ensure_access_token" /\ ~seqlog[2].raised
    /\ seqlog[2].now < seqlog[2].before.exp
    /\ seqlog[2].posts = 1
    /\ seqlog[2].at = 3

\* C24: a refresh answered 400 or 401 raises AuthenticationError after that
\* one request and leaves the cache file as it found it.
C24_RefreshRejected ==
    \A j \in 1..Len(seqlog) :
        LET c == seqlog[j] IN
        (c.op \in {"refresh", "ensure_access_token"} /\ c.status \in {400, 401}) =>
            /\ c.raised
            /\ c.posts = 1
            /\ c.after = c.before

\* refresh() was answered 401 while the file held a record with a refresh
\* token.
C24_Witness ==
    /\ Len(seqlog) >= 1
    /\ seqlog[1].op = "refresh"
    /\ seqlog[1].status = 401
    /\ seqlog[1].before.state = "json"
    /\ seqlog[1].raised


\* C25: whenever a refresh or an exchange has returned, the cache file holds
\* the access token it returned: with every caller between calls, the file is
\* a token record whose access token is the one returned last, so that the
\* next ensure_access_token() reads nothing older.
C25_PersistedOnReturn ==
    (TokQuiet /\ tokHist.returned # 0) =>
        /\ cache.state = "json"
        /\ cache.at = tokHist.returned


\* ------------------------------------------------------------------
\* extract_raw: empty passes, records without identity, last record kept
\* ------------------------------------------------------------------

\* The identities of the records extract_raw returned.
ResultIds == {xresult[k].id : k \in 1..Len(xresult)} \ {NoId}

\* A pass after the first returned no row.
LaterPassEmpty == xh.empty_at # 0

\* C26, as stated: a first pass without rows makes extract_raw return the
\* empty list after that one pass, without enrichment; after a later pass
\* without rows extract_raw does not raise and its result holds every identity
\* the earlier passes consolidated.
C26_EmptyPassAnyResult ==
    xpc = "done" =>
        /\ xh.first_empty =>
              /\ xoutcome = "returned" /\ xresult = <<>>
              /\ xh.passes = 1 /\ xh.enrich_calls = 0
        /\ LaterPassEmpty =>
              /\ xoutcome = "returned"
              /\ xh.seen \subseteq ResultIds

\* C26, amended: a first pass without rows makes extract_raw return the empty
\* list after that one pass, without enrichment; a later pass without rows
\* raises nothing and loses nothing: consolidation ends with every identity
\* the earlier passes consolidated, and that is the result of extract_raw
\* when enrich_by_id is off.
C26_EmptyPass ==
    /\ (xpc = "done" /\ xh.first_empty) =>
          /\ xoutcome = "returned" /\ xresult = <<>>
          /\ xh.passes = 1 /\ xh.enrich_calls = 0
    /\ (xpc \in {"finish", "done"} /\ LaterPassEmpty) =>
          /\ {consolidated_data[k].id : k \in 1..Len(consolidated_data)} = xh.seen
          /\ xpc = "done" =>
                /\ {r.id : r \in xh.out} = xh.seen
                /\ ~enrich_by_id => (xoutcome = "returned" /\ xresult = consolidated_data)

\* Pass 1 consolidated two identities, pass 2 of three came back empty, and
\* the two records were returned.
C26_Witness ==
    /\ xpc = "done"
    /\ max_passes = 3
    /\ xh.empty_at = 2
    /\ xh.seen = {1, 2}
    /\ ~enrich_by_id
    /\ xoutcome = "returned"
    /\ Len(xresult) = 2

\* C27: a pass after the first that returns no row is skipped: when passes
\* remain, the next pass is executed.
C27_EmptyPassSkipped ==
    (xpc = "done" /\ LaterPassEmpty /\ xh.empty_at < max_passes) =>
        xh.passes > xh.empty_at

\* C28: with max_passes = 1, when some record of the pass has no identity,
\* extract_raw returns the rows of the pass as they were fetched: all of them,
\* in order, whether or not identities repeat.
C28_RawRowsAsIs ==
    (/\ xpc = "done"
     /\ max_passes = 1
     /\ up_frozen
     /\ \E k \in 1..Len(up_rows) : up_rows[k].id = NoId) =>
        /\ xoutcome = "returned"
        /\ xresult = up_rows
        /\ xh.enrich_calls = 0

\* The pass returned identity 1 twice and a record without identity; the
\* three rows came back, with enrichment configured.
C28_Witness ==
    /\ xpc = "done"
    /\ max_passes = 1
    /\ up_frozen
    /\ up_rows = MixedRows
    /\ enrich_by_id
    /\ xresult = MixedRows

\* C30: the record consolidation keeps for an identity is the one of its last
\* occurrence, in the order the records were fetched: pass after pass, and
\* within a pass in the order of the row list (combination after combination,
\* page after page).
C30_LastSeenWins ==
    ~xh.raw_return =>
        /\ {consolidated_data[k] : k \in 1..Len(consolidated_data)} = xh.latest
        /\ (xpc = "done" /\ NoPassRaised) => xh.out = xh.latest

\* Identity 1 came with one content in pass 1 and twice, with two contents,
\* in pass 2: the content fetched last is the one kept.
C30_Witness ==
    /\ xpc = "done"
    /\ xh.passes = 2
    /\ xh.replaced
    /\ xh.first_ids = <<1>>
    /\ up_frozen
    /\ up_rows = <<[id |-> 1, v |-> 1], [id |-> 1, v |-> 2]>>
    /\ consolidated_data = <<[id |-> 1, v |-> 2]>>


\* ------------------------------------------------------------------
\* _fetch_all_pages: payloads of an unrecognized shape
\* ------------------------------------------------------------------

\* C29: a page payload of an unrecognized shape (data path absent, or neither
\* object nor list) makes the fetch end with DataExtractionError.
C29_UnrecognizedShapeFails ==
    (fpc = "done" /\ bad_shapes > 0) => foutcome = "DataExtractionError"


\* ------------------------------------------------------------------
\* extract_raw: cool-downs, failed passes, records without identity
\* ------------------------------------------------------------------

\* C33: a cool-down is taken after a pass only when another pass follows it:
\* while a pass is due, every pass executed so far was followed by one
\* cool-down; once the loop has ended, the last pass executed (the one that
\* stabilized the set, pass number max_passes, an empty pass or one that
\* raised) was followed by none.
C33_CoolDownPlacement ==
    /\ xpc = "pass" => xh.cooldowns = xh.passes
    /\ (xpc \in {"finish", "done"} /\ xh.passes > 0) => xh.cooldowns = xh.passes - 1

\* Three passes of three were executed with two cool-downs in between.
C33_Witness ==
    /\ xpc = "done"
    /\ max_passes = 3
    /\ xh.passes = 3
    /\ xh.cooldowns = 2
    /\ xh.last_new > 0

\* C38: when a page request exhausts its retries in some pass, extract_raw
\* raises DataExtractionError and returns no record, whatever the earlier
\* passes consolidated.
C38_AllOrNothing ==
    (xpc = "done" /\ ~NoPassRaised) =>
        /\ xoutcome = "DataExtractionError"
        /\ xresult = <<>>
        /\ xh.enrich_calls = 0

\* Pass 1 consolidated two identities and pass 2 raised.
C38_Witness ==
    /\ xpc = "done"
    /\ xh.failed_at = 2
    /\ Len(consolidated_data) = 2
    /\ xoutcome = "DataExtractionError"

\* No pass so far returned a record with an identity.
NoIdentitySeen == xh.seen = {}

\* C39: with max_passes > 1 no record without identity is in the
\* consolidated result, so passes whose records all lack it consolidate to
\* nothing, and enrichment, when configured, then raises DataExtractionError;
\* with max_passes = 1 and enrich_by_id set, a pass with a record without
\* identity is returned as it is and no enrichment is called.
C39_IdlessRecords ==
    /\ (xpc = "done" /\ max_passes > 1 /\ NoPassRaised /\ ~xh.first_empty) =>
          /\ \A r \in xh.out : r.id # NoId
          /\ NoIdentitySeen =>
                /\ xh.out = {}
                /\ IF enrich_by_id
                   THEN xoutcome = "DataExtractionError"
                   ELSE xoutcome = "returned" /\ xresult = <<>>
    /\ (/\ xpc = "done"
        /\ max_passes = 1
        /\ enrich_by_id
        /\ up_frozen
        /\ \E k \in 1..Len(up_rows) : up_rows[k].id = NoId) =>
          /\ xoutcome = "returned"
          /\ xresult = up_rows
          /\ xh.enrich_calls = 0

\* With max_passes = 2 and enrichment configured, both passes returned only
\* records without identity.
C39_Witness ==
    /\ xpc = "done"
    /\ max_passes = 2
    /\ enrich_by_id
    /\ xh.passes = 2
    /\ xh.first_ids = <<NoId, NoId>>
    /\ NoIdentitySeen
    /\ xoutcome = "DataExtractionError"


\* ------------------------------------------------------------------
\* _fetch_all_pages: empty pages
\* ------------------------------------------------------------------

\* C35: with a page size of at least 1, the first page without records ends
\* pagination: the counter of consecutive empty pages never exceeds 1, so it
\* never reaches 3, and nothing follows the response of an empty page.
C35_EmptyPageEnds ==
    page_size >= 1 =>
        /\ consecutive_empty_pages <= 1
        /\ consecutive_empty_pages < EmptyPagesStop
        /\ \A j \in 1..Len(flog) :
              (flog[j].e = "resp" /\ flog[j].n = 0) =>
                  /\ j = Len(flog)
                  /\ fpc = "done"
                  /\ foutcome = "returned"

\* After two full pages of size 2 the third page came back empty, with pages
\* and rows to spare.
C35_Witness ==
    /\ paging_mode = "page"
    /\ page_size = 2
    /\ max_pages = MaxPagesCap
    /\ row_limit = 0
    /\ Len(PageResps) = 3
    /\ PageResps[3].n = 0
    /\ Len(all_rows) = 4
    /\ bad_shapes = 0
    /\ fpc = "done"


\* ------------------------------------------------------------------
\* _get_data_from_payload
\* ------------------------------------------------------------------

\* The priority in which the wrapper keys are to be probed.
ProbeOrder == <<"data", "items", "results", "content">>

\* The wrapper keys under which the data found at the path holds a list.
ListKeys == {k \in 1..Len(ProbeOrder) : walked.w[ProbeOrder[k]] = "list"}

\* C36: whatever the payload and the path, what is extracted is a list, so
\* the stop on a value that is no list is never taken; an object without a
\* list under any wrapper key comes back as a one-element list, a path that
\* is missing and a scalar as the empty list; and of the wrapper keys holding
\* a list the first in the order data, items, results, content is the one
\* whose list is returned.
C36_AlwaysAList ==
    gpc = "done" =>
        /\ extracted.is_list
        /\ ~StopsOnNonList(extracted)
        /\ walked.t \in {"missing", "scalar"} => extracted.how = "empty"
        /\ (walked.t = "object" /\ ListKeys = {}) =>
              (extracted.how = "wrapped" /\ extracted.at = data_path)
        /\ (walked.t = "object" /\ ListKeys # {}) =>
              /\ extracted.how = "value"
              /\ \E k \in ListKeys :
                    /\ extracted.at = Append(data_path, ProbeOrder[k])
                    /\ \A j \in ListKeys : k <= j
        /\ walked.t \in {"list", "empty_list"} =>
              (extracted.how = "value" /\ extracted.at = data_path)

\* An object holding a scalar under data and lists under items and results:
\* the list under items was returned.
C36_Witness ==
    /\ gpc = "done"
    /\ data_path = <<>>
    /\ payload.t = "object"
    /\ payload.w["data"] = "scalar"
    /\ payload.w["items"] = "list"
    /\ payload.w["results"] = "list"
    /\ extracted.at = <<"items">>


\* ------------------------------------------------------------------
\* _enrich_data_raw: one detail fetch per identity
\* ------------------------------------------------------------------

\* The detail requests sent for an identity.
FetchesOf(id) == {i \in Tasks : ids_to_fetch[i] = id /\ fetches[i] > 0}

\* C32: in both strategies, once enrichment has run, every distinct identity
\* of the rows it was given has had exactly one detail request, made of one
\* call of _make_request, no other identity has had any, and when some
\* identity was enriched the output holds at most one record per identity.
C32_OneFetchPerIdentity ==
    (npc = "done" /\ noutcome = "returned") =>
        /\ \A id \in IdsOf(raw_data) :
              /\ Cardinality(FetchesOf(id)) = 1
              /\ \A i \in FetchesOf(id) : fetches[i] = 1
        /\ \A i \in Tasks : ids_to_fetch[i] \in IdsOf(raw_data)
        /\ (\E i \in Tasks : toutcome[i] = "ok") =>
              \A j, k \in 1..Len(nresult) :
                  (nresult[j].id = nresult[k].id /\ nresult[j].id # NoId) => j = k

\* The rows held identity 1 twice; it was fetched once and enriched, in the
\* sequential strategy.
C32_Witness ==
    /\ npc = "done"
    /\ enrichment_strategy = "sequential"
    /\ Len(raw_data) = 2
    /\ raw_data[1].id = 1 /\ raw_data[2].id = 1
    /\ fetches = <<1>>
    /\ nresult = <<DetailRecord(1)>>


\* ------------------------------------------------------------------
\* _make_request: wait() before every GET
\* ------------------------------------------------------------------

\* C34: every GET of a call is preceded by a wait() of its own (a wait() with
\* no other GET between it and the GET), the GET sent again after a forced
\* refresh included, so that two consecutive GETs are at least one period
\* apart.
C34_WaitBeforeEveryGet ==
    /\ \A j \in 1..Len(qlog) :
          IsGet(qlog[j]) =>
              \E i \in 1..(j - 1) :
                  /\ IsWait(qlog[i])
                  /\ \A k \in (i + 1)..(j - 1) : ~IsGet(qlog[k])
    /\ \A j \in 2..Len(Gets) : Gets[j].at - Gets[j - 1].at >= period_seconds


\* ------------------------------------------------------------------
\* The two rate limiters
\* ------------------------------------------------------------------

\* C31: a page request waits on the main limiter and leaves the enrichment
\* limiter as it was; a detail request waits on the enrichment limiter and
\* leaves the main one as it was; and when no enrichment rate is configured
\* the enrichment limiter has the period of the main one, and a stamp of its
\* own.
C31_ChannelsIndependent ==
    /\ \A j \in 1..Len(chan_log) :
          LET c == chan_log[j] IN
          /\ c.kind = "page" =>
                /\ c.enrich_after = c.enrich_before
                /\ c.main_before.period_seconds > 0 => c.main_after.last_request_time = c.at
          /\ c.kind = "detail" =>
                /\ c.main_after = c.main_before
                /\ c.enrich_before.period_seconds > 0 => c.enrich_after.last_request_time = c.at
    /\ enrichment_requests_per_minute = 0 =>
          enrich_rate_limiter.period_seconds = main_rate_limiter.period_seconds

\* With 30 requests per minute and no enrichment rate, a page request and
\* then, one second later, a detail request: both limiters have the period
\* of 2 s and each its own stamp.
C31_Witness ==
    /\ requests_per_minute = 30
    /\ enrichment_requests_per_minute = 0
    /\ Len(chan_log) = 2
    /\ chan_log[1].kind = "page"
    /\ chan_log[2].kind = "detail"
    /\ main_rate_limiter.period_seconds = 2000
    /\ enrich_rate_limiter.period_seconds = 2000
    /\ main_rate_limiter.last_request_time # enrich_rate_limiter.last_request_time


\* ------------------------------------------------------------------
\* Concurrent enrichment: termination
\* ------------------------------------------------------------------

\* C37: when the threads of a concurrent enrichment are scheduled, every
\* call of _enrich_one_detail eventually ends, every permit of the semaphore
\* and the lock of the rate limiter are given back, and the enrichment stage
\* returns.
C37_EnrichmentTerminates ==
    <>(/\ stage = "returned"
       /\ \A i \in Calls : wstate[i] = "done"
       /\ semaphore = 0
       /\ limiter_lock = 0)

\* A concurrent enrichment of three identities by two workers with one permit
\* and a rate period has returned: calls have ended with a response, with an
\* exception and with every attempt failed, and neither a permit nor the lock
\* is held.
C37_Witness ==
    /\ stage = "returned"
    /\ ids_n = 3
    /\ workers_n = 2
    /\ permits_n = 1
    /\ limiter_period > 0
    /\ ended = Endings
    /\ semaphore = 0
    /\ limiter_lock = 0

====
